---- MODULE Spec2Model ----
(***************************************************************************)
(* Data validator over a database link: the chunked comparison engine of   *)
(* src/data_validator/validators/table_validator.py, the progress/result   *)
(* store of db/repository.py and the resume path of orchestrator.py.       *)
(*                                                                         *)
(* Text is a sequence of ASCII codes, so that splitting, stripping and     *)
(* ordering of cursor strings are computed and not assumed.  The SQL and   *)
(* PL/SQL the program generates is modelled by what Oracle evaluates:      *)
(* three-valued logic, NULL || x = x, the empty string is NULL, binary     *)
(* ordering of VARCHAR2, numeric ordering of NUMBER.  DATE keys are not    *)
(* modelled.                                                               *)
(***************************************************************************)
EXTENDS Integers, Sequences, FiniteSets, TLC

VARIABLES
    mapping,         \* TableMapping of the validated table (config.py)
    source_rows,     \* rows of source_table@db_link (static)
    target_rows,     \* rows of target_table (static)
    pc,              \* position of validate_table
    mode,            \* "run" | "resume": how the current attempt was started
    progress_id,     \* id returned by create_progress_entry (0: none)
    total_rows,      \* local of validate_table
    processed_rows,  \* local of _validate_in_chunks
    last_key,        \* local of _validate_in_chunks (None or text)
    results,         \* local dict 'results' of _validate_in_chunks
    chunks,          \* history: per issued chunk, its query and rows
    progress_table,  \* DATA_VALIDATION_PROGRESS, in insertion order
    results_table,   \* DATA_VALIDATION_RESULTS, in insertion order
    outcome,         \* what the last validate_table call returned or raised
    inp,             \* input of the pure-function specifications
    out              \* their output

vars == <<mapping, source_rows, target_rows, pc, mode, progress_id, total_rows,
          processed_rows, last_key, results, chunks, progress_table,
          results_table, outcome, inp, out>>

runVars == <<mapping, source_rows, target_rows, pc, mode, progress_id, total_rows,
             processed_rows, last_key, results, chunks, progress_table,
             results_table, outcome>>

-----------------------------------------------------------------------------
(* Bounds *)

\* key values of a NUMBER key column are 1..MaxKeyVal
MaxKeyVal == 2
\* chunk_size ranges over 1..MaxChunkSize
MaxChunkSize == 2
\* number of natural-key columns ranges over 1..MaxKeys
MaxKeys == 2
\* validation attempts (ProgressEntry rows) per behaviour
MaxAttempts == 2
\* length of the text values of the pure-function specifications
MaxStrLen == 2

-----------------------------------------------------------------------------
(* Text *)

SP    == 32
\* the letter 'a'
CH_a  == 96 + 1
BAR   == 124
TILDE == 126

\* Python None / SQL NULL of a text variable
None == <<-1>>

\* '~|~'
DELIM == <<TILDE, BAR, TILDE>>

RECURSIVE StrLess(_, _)
\* binary (non-padded) ordering of VARCHAR2 values
StrLess(a, b) ==
    IF b = <<>> THEN FALSE
    ELSE IF a = <<>> THEN TRUE
    ELSE IF Head(a) # Head(b) THEN Head(a) < Head(b)
    ELSE StrLess(Tail(a), Tail(b))

StartsWith(s, p) == Len(s) >= Len(p) /\ SubSeq(s, 1, Len(p)) = p

RECURSIVE split(_, _)
\* str.split(sep): leftmost, non-overlapping occurrences of sep
split(s, sep) ==
    IF \E i \in 1..Len(s) : StartsWith(SubSeq(s, i, Len(s)), sep)
    THEN LET i == CHOOSE j \in 1..Len(s) :
                     /\ StartsWith(SubSeq(s, j, Len(s)), sep)
                     /\ \A h \in 1..(j-1) : ~StartsWith(SubSeq(s, h, Len(s)), sep)
         IN <<SubSeq(s, 1, i-1)>> \o split(SubSeq(s, i + Len(sep), Len(s)), sep)
    ELSE <<s>>

RECURSIVE lstrip(_)
lstrip(s) == IF s # <<>> /\ Head(s) = SP THEN lstrip(Tail(s)) ELSE s

RECURSIVE rstrip(_)
rstrip(s) == IF s # <<>> /\ s[Len(s)] = SP THEN rstrip(SubSeq(s, 1, Len(s)-1)) ELSE s

\* str.strip()
strip(s) == rstrip(lstrip(s))

Digit(d) == 48 + d

RECURSIVE NumToChar(_)
\* TO_CHAR(n) of a non-negative integer: its decimal digits
NumToChar(n) == IF n < 10 THEN <<Digit(n)>> ELSE NumToChar(n \div 10) \o <<Digit(n % 10)>>

IsDigits(s) == s # <<>> /\ \A i \in 1..Len(s) : s[i] \in 48..57

RECURSIVE ParseNum(_)
\* the value of an unquoted numeric literal
ParseNum(s) == IF s = <<>> THEN 0 ELSE 10 * ParseNum(SubSeq(s, 1, Len(s)-1)) + (s[Len(s)] - 48)

TextOfLen(alphabet, n) == UNION {[1..m -> alphabet] : m \in 1..n}

-----------------------------------------------------------------------------
(* Values, three-valued logic and ordering as the database evaluates them *)

StringTypes == {"VARCHAR2", "CHAR", "CLOB"}

\* SQL NULL of a NUMBER column (the values of the model are naturals); the
\* NULL of a text column is the empty string, as in Oracle
NumNull == 0 - 1

IsNull(v, type) == IF type \in StringTypes THEN v = <<>> ELSE v = NumNull

And3(a, b) == IF a = "F" \/ b = "F" THEN "F" ELSE IF a = "T" /\ b = "T" THEN "T" ELSE "U"

Or3(a, b) == IF a = "T" \/ b = "T" THEN "T" ELSE IF a = "F" /\ b = "F" THEN "F" ELSE "U"

B3(b) == IF b THEN "T" ELSE "F"

\* x IS NULL, x IS NOT NULL
IsNull3(v, type) == B3(IsNull(v, type))

IsNotNull3(v, type) == B3(~IsNull(v, type))

\* a = b, a != b, a > b
Eq3(a, b, type) == IF IsNull(a, type) \/ IsNull(b, type) THEN "U" ELSE B3(a = b)

Ne3(a, b, type) == IF IsNull(a, type) \/ IsNull(b, type) THEN "U" ELSE B3(a # b)

Gt3(a, b, type) ==
    IF IsNull(a, type) \/ IsNull(b, type) THEN "U"
    ELSE IF type \in StringTypes THEN B3(StrLess(b, a)) ELSE B3(a > b)

\* TO_CHAR(v) of a non-NULL value
TO_CHAR(v, type) == IF type \in StringTypes THEN v ELSE NumToChar(v)

\* the natural-key tuple of a row
KeyOf(row, natural_keys) == [i \in 1..Len(natural_keys) |-> row[natural_keys[i]]]

KeyTypes(natural_keys, column_info) == [i \in 1..Len(natural_keys) |-> column_info[natural_keys[i]]]

RECURSIVE TupleLess(_, _, _)
\* ORDER BY k1, k2, ...: lexicographic order of non-NULL key tuples
TupleLess(a, b, types) ==
    IF a = <<>> THEN FALSE
    ELSE IF Head(a) # Head(b) THEN Gt3(Head(b), Head(a), Head(types)) = "T"
    ELSE TupleLess(Tail(a), Tail(b), Tail(types))

-----------------------------------------------------------------------------
(* Chunk planner: the pagination condition of _build_chunk_plsql *)

\* one comparison "t.<col> <op> <literal>" of the generated condition
Atom(col, op, key_value, type) ==
    [col |-> col, op |-> op, text |-> key_value, quoted |-> type \in StringTypes, type |-> type]

\* pagination_conditions: disjunct i is equality on keys 1..i-1 and
\* strictly greater on key i, each against the stripped cursor part
pagination_conditions(natural_keys, column_info, key_parts) ==
    [i \in 1..Len(natural_keys) |->
        [j \in 1..i |->
            Atom(natural_keys[j], IF j < i THEN "=" ELSE ">",
                 strip(key_parts[j]), column_info[natural_keys[j]])]]

\* pagination_condition: <<>> stands for the empty string (no condition)
pagination_condition(natural_keys, column_info, lastkey) ==
    IF lastkey = None \/ lastkey = <<>> THEN <<>>
    ELSE LET key_parts == split(lastkey, DELIM)
         IN IF Len(key_parts) = Len(natural_keys)
            THEN pagination_conditions(natural_keys, column_info, key_parts)
            ELSE <<>>

\* an unquoted literal must be a number for the statement to parse
AtomParses(a) == a.quoted \/ IsDigits(a.text)

ConditionParses(cond) ==
    \A i \in 1..Len(cond) : \A j \in 1..Len(cond[i]) : AtomParses(cond[i][j])

EvalAtom(a, t) ==
    LET lit == IF a.quoted THEN a.text ELSE ParseNum(a.text)
    IN IF a.op = "=" THEN Eq3(t[a.col], lit, a.type) ELSE Gt3(t[a.col], lit, a.type)

RECURSIVE AndAll(_)
AndAll(s) == IF s = <<>> THEN "T" ELSE And3(Head(s), AndAll(Tail(s)))

RECURSIVE OrAll(_)
OrAll(s) == IF s = <<>> THEN "F" ELSE Or3(Head(s), OrAll(Tail(s)))

\* "AND (c1 OR c2 ...)" on target row t; no condition accepts every row
EvalPagination(cond, t) ==
    IF cond = <<>> THEN "T"
    ELSE OrAll([i \in 1..Len(cond) |-> AndAll([j \in 1..Len(cond[i]) |-> EvalAtom(cond[i][j], t)])])

-----------------------------------------------------------------------------
(* Row comparator: the CASE expression of cursor c_data *)

\* column_comparison without the IS NULL tests of the numeric/date branch
column_comparison_no_null_tests(type, tv, sv) ==
    IF type \in StringTypes
    THEN Or3(And3(IsNull3(tv, type), IsNotNull3(sv, type)),
         Or3(And3(IsNotNull3(tv, type), IsNull3(sv, type)),
             And3(IsNotNull3(tv, type), And3(IsNotNull3(sv, type), Ne3(tv, sv, type)))))
    ELSE Ne3(tv, sv, type)

\* the comparison generated for one non-key column, on target value tv and
\* source value sv
column_comparison(type, tv, sv) ==
    IF type \in StringTypes
    THEN Or3(And3(IsNull3(tv, type), IsNotNull3(sv, type)),
         Or3(And3(IsNotNull3(tv, type), IsNull3(sv, type)),
             And3(IsNotNull3(tv, type), And3(IsNotNull3(sv, type), Ne3(tv, sv, type)))))
    ELSE Or3(And3(IsNull3(tv, type), IsNotNull3(sv, type)),
         Or3(And3(IsNotNull3(tv, type), IsNull3(sv, type)),
             Ne3(tv, sv, type)))

\* comparison_condition: the OR over the compared columns, "1=0" when there
\* are none; columns is a sequence in catalog order
comparison_condition(columns, natural_keys, column_info, t, s) ==
    LET keys == {natural_keys[i] : i \in 1..Len(natural_keys)}
    IN OrAll([n \in 1..Len(columns) |->
                IF columns[n] \in keys THEN "F"
                ELSE column_comparison(column_info[columns[n]], t[columns[n]], s[columns[n]])])

\* row_status with the WHEN branches of MISSING and MISMATCH exchanged
row_status_mismatch_first(columns, natural_keys, column_info, t, s) ==
    IF comparison_condition(columns, natural_keys, column_info, t, s) = "T" THEN "MISMATCH"
    ELSE IF IsNull(s[natural_keys[1]], column_info[natural_keys[1]]) THEN "MISSING"
    ELSE "MATCH"

\* CASE WHEN s.<key 1> IS NULL THEN 'MISSING' WHEN <comparison> THEN 'MISMATCH'
\* ELSE 'MATCH' END
row_status(columns, natural_keys, column_info, t, s) ==
    IF IsNull(s[natural_keys[1]], column_info[natural_keys[1]]) THEN "MISSING"
    ELSE IF comparison_condition(columns, natural_keys, column_info, t, s) = "T" THEN "MISMATCH"
    ELSE "MATCH"

\* the NULL of a column
NullOf(type) == IF type \in StringTypes THEN <<>> ELSE NumNull

\* the s side of "t LEFT JOIN s ON t.k = s.k ...": the source row of the same
\* natural key, all NULL when there is none
left_join(t, src, natural_keys, column_info) ==
    LET match == {s \in src : AndAll([i \in 1..Len(natural_keys) |->
                     Eq3(t[natural_keys[i]], s[natural_keys[i]], column_info[natural_keys[i]])]) = "T"}
    IN IF match = {} THEN [c \in DOMAIN t |-> NullOf(column_info[c])]
       ELSE CHOOSE s \in match : TRUE

RECURSIVE OrderBy(_, _, _)
\* ORDER BY the natural key, ascending
OrderBy(rows, natural_keys, column_info) ==
    IF rows = {} THEN <<>>
    ELSE LET types == KeyTypes(natural_keys, column_info)
             first == CHOOSE r \in rows : \A q \in rows :
                          ~TupleLess(KeyOf(q, natural_keys), KeyOf(r, natural_keys), types)
         IN <<first>> \o OrderBy(rows \ {first}, natural_keys, column_info)

Min(a, b) == IF a <= b THEN a ELSE b

\* cursor c_data: target rows after the pagination condition, in key order,
\* FETCH FIRST chunk_size ROWS ONLY, each with its joined source row and status
c_data(m, columns, column_info, lastkey, src, tgt) ==
    LET cond == pagination_condition(m.natural_keys, column_info, lastkey)
        sel == {t \in tgt : EvalPagination(cond, t) = "T"}
        ordered == OrderBy(sel, m.natural_keys, column_info)
    IN [n \in 1..Min(m.chunk_size, Len(ordered)) |->
          LET t == ordered[n]
              s == left_join(t, src, m.natural_keys, column_info)
          IN [t |-> t, s |-> s,
              status |-> row_status(columns, m.natural_keys, column_info, t, s)]]

-----------------------------------------------------------------------------
(* Chunk executor: the PL/SQL block of _build_chunk_plsql, run by
   _execute_chunk_validation *)

\* The per-row cursor statement.  For one natural key it is
\*   v_key_value := COALESCE(v_key_value || '~|~', '') || TO_CHAR(rec.t_<key>)
\* run with v_key_value NULL; NULL || '~|~' is '~|~'.
plsql_key_value(t, natural_keys, column_info) ==
    LET v_key_value == <<>>
        prefix == v_key_value \o DELIM
        coalesce == IF prefix # <<>> THEN prefix ELSE <<>>
    IN coalesce \o TO_CHAR(t[natural_keys[1]], column_info[natural_keys[1]])

\* For several natural keys the statements are joined by " || '~|~' || " into
\* "v_key_value := ... || '~|~' || v_key_value := ...", which is no PL/SQL.
block_compiles(natural_keys) == Len(natural_keys) = 1

\* the error cursor.execute raises for the generated block, "" when none
chunk_error(m, column_info, lastkey) ==
    IF ~block_compiles(m.natural_keys) THEN "PLS-00103"
    ELSE IF ~ConditionParses(pagination_condition(m.natural_keys, column_info, lastkey))
         THEN "ORA-00936"
    ELSE ""

CountStatus(recs, st) == Cardinality({n \in 1..Len(recs) : recs[n].status = st})

\* the OUT parameters of the block; keys, statuses and paginated are history
chunk_result(m, columns, column_info, lastkey, src, tgt) ==
    LET recs == c_data(m, columns, column_info, lastkey, src, tgt)
    IN [matched |-> CountStatus(recs, "MATCH"),
        mismatched |-> CountStatus(recs, "MISMATCH"),
        missing_in_target |-> CountStatus(recs, "MISSING"),
        processed |-> Len(recs),
        statuses |-> [n \in 1..Len(recs) |-> recs[n].status],
        last_key |-> IF Len(recs) = 0 THEN None
                     ELSE plsql_key_value(recs[Len(recs)].t, m.natural_keys, column_info),
        keys |-> [n \in 1..Len(recs) |-> KeyOf(recs[n].t, m.natural_keys)],
        cursor |-> lastkey,
        paginated |-> pagination_condition(m.natural_keys, column_info, lastkey) # <<>>]

-----------------------------------------------------------------------------
(* Catalog and tables of the model *)

KeyNames == <<"K1", "K2", "K3", "K4">>

\* user_tab_columns of the table, in column_id order
table_columns(m) == m.natural_keys \o <<"VAL">>

\* _get_column_info: every column of the model's table is a NUMBER
get_column_info(m) == [c \in {table_columns(m)[i] : i \in 1..Len(table_columns(m))} |-> "NUMBER"]

\* columns to compare: the table's columns without exclude_columns
compare_columns(m) == SelectSeq(table_columns(m), LAMBDA c : c \notin m.exclude_columns)

\* a row of key number v: the last key column carries v, the others 1
Row(m, v, val) ==
    [c \in DOMAIN get_column_info(m) |->
        IF c = "VAL" THEN val
        ELSE IF c = m.natural_keys[Len(m.natural_keys)] THEN v ELSE 1]

Mappings ==
    {[source_table |-> "SRC", target_table |-> "TGT",
      natural_keys |-> SubSeq(KeyNames, 1, k), exclude_columns |-> {},
      chunk_size |-> c] : k \in 1..MaxKeys, c \in 1..MaxChunkSize}

\* the tables hold the key numbers 1..n, n <= MaxKeyVal; per key number the
\* row is in the source only, in the target only, in both and equal, or in
\* both with a different VAL
Layouts == UNION {[1..n -> {"src", "tgt", "same", "diff"}] : n \in 0..MaxKeyVal}

SourceOf(m, lay) == {Row(m, v, 1) : v \in {w \in DOMAIN lay : lay[w] \in {"src", "same", "diff"}}}

TargetOf(m, lay) ==
    {Row(m, v, IF lay[v] = "diff" THEN 2 ELSE 1) :
        v \in {w \in DOMAIN lay : lay[w] \in {"tgt", "same", "diff"}}}

-----------------------------------------------------------------------------
(* Progress/result store: db/repository.py *)

\* create_progress_entry: INSERT ... 'IN_PROGRESS', total_rows 0, processed_rows 0
create_progress_entry(table, table_name) ==
    Append(table, [id |-> Len(table) + 1, table_name |-> table_name,
                   status |-> "IN_PROGRESS", total_rows |-> 0, processed_rows |-> 0,
                   last_processed_key |-> None, completed_at |-> FALSE,
                   error_message |-> ""])

\* update_progress whose UPDATE selects the rows by the entry's table_name
update_progress_by_table_name(table, id, processed, last_processed_key, status) ==
    [n \in 1..Len(table) |->
        IF table[n].table_name = table[id].table_name
        THEN [table[n] EXCEPT !.processed_rows = processed,
                              !.last_processed_key = last_processed_key,
                              !.status = status]
        ELSE table[n]]

\* update_progress: UPDATE ... SET processed_rows, last_processed_key, status
\* WHERE id = :id
update_progress(table, id, processed, last_processed_key, status) ==
    [n \in 1..Len(table) |->
        IF table[n].id = id
        THEN [table[n] EXCEPT !.processed_rows = processed,
                              !.last_processed_key = last_processed_key,
                              !.status = status]
        ELSE table[n]]

\* complete_progress: UPDATE ... SET status, completed_at, error_message
complete_progress(table, id, status, error_message) ==
    [n \in 1..Len(table) |->
        IF table[n].id = id
        THEN [table[n] EXCEPT !.status = status, !.completed_at = TRUE,
                              !.error_message = error_message]
        ELSE table[n]]

\* the None that get_latest_progress returns when the table has no entry
NoProgress == [id |-> 0, status |-> "NONE"]

\* get_latest_progress: ORDER BY started_at DESC FETCH FIRST 1 ROW ONLY
get_latest_progress(table, table_name) ==
    LET mine == {n \in 1..Len(table) : table[n].table_name = table_name}
    IN IF mine = {} THEN NoProgress ELSE table[CHOOSE n \in mine : \A q \in mine : q <= n]

\* save_result: INSERT INTO results; progress_id is history (the attempt)
save_result(table, result) == Append(table, [result EXCEPT !.id = Len(table) + 1])

-----------------------------------------------------------------------------
(* validate_table and _validate_in_chunks, one action per blocking call *)

ZeroResults == [matched |-> 0, mismatched |-> 0, missing_in_target |-> 0, extra_in_target |-> 0]

\* lines 22-31: a validation attempt starts by creating its ProgressEntry
StartAttempt(how) ==
    /\ pc = "idle"
    /\ Len(progress_table) < MaxAttempts
    /\ progress_table' = create_progress_entry(progress_table, mapping.source_table)
    /\ progress_id' = Len(progress_table) + 1
    /\ pc' = "count"
    /\ mode' = how
    /\ total_rows' = 0
    /\ processed_rows' = 0
    /\ last_key' = None
    /\ results' = ZeroResults
    /\ chunks' = <<>>
    /\ outcome' = [kind |-> "none"]
    /\ UNCHANGED <<mapping, source_rows, target_rows, results_table, inp, out>>

\* run_validation -> _run_concurrent_validations -> validate_table
RunValidation == StartAttempt("run")

\* resume_validations: the table is run again when its latest ProgressEntry
\* is IN_PROGRESS, PAUSED or FAILED; it goes through run_validation
ResumeValidations ==
    /\ LET progress == get_latest_progress(progress_table, mapping.source_table)
       IN progress # NoProgress /\ progress.status \in {"IN_PROGRESS", "PAUSED", "FAILED"}
    /\ StartAttempt("resume")

\* the locals of a validate_table call that has ended: they no longer exist
LocalsEnd ==
    /\ total_rows' = 0
    /\ processed_rows' = 0
    /\ last_key' = None
    /\ results' = ZeroResults
    /\ chunks' = <<>>

\* Handler that saves the FAILED result and leaves the ProgressEntry as it is
Handler_keeps_progress(err) ==
    /\ progress_table' = progress_table
    /\ results_table' = save_result(results_table,
            [id |-> 0, table_name |-> mapping.source_table, total_rows |-> 0,
             matched_rows |-> 0, mismatched_rows |-> 0, missing_in_target |-> 0,
             extra_in_target |-> 0, status |-> "FAILED", error_message |-> err,
             progress_id |-> progress_id])
    /\ outcome' = [kind |-> "raised", error |-> err]
    /\ pc' = "idle"
    /\ LocalsEnd

\* Handler that writes the ProgressEntry anew: FAILED, no rows, no cursor
Handler_resets_checkpoint(err) ==
    /\ progress_table' = complete_progress(
            update_progress(progress_table, progress_id, 0, None, "IN_PROGRESS"),
            progress_id, "FAILED", err)
    /\ results_table' = save_result(results_table,
            [id |-> 0, table_name |-> mapping.source_table, total_rows |-> 0,
             matched_rows |-> 0, mismatched_rows |-> 0, missing_in_target |-> 0,
             extra_in_target |-> 0, status |-> "FAILED", error_message |-> err,
             progress_id |-> progress_id])
    /\ outcome' = [kind |-> "raised", error |-> err]
    /\ pc' = "idle"
    /\ LocalsEnd

\* lines 100-123: the except branch of validate_table
Handler(err) ==
    /\ progress_table' = complete_progress(progress_table, progress_id, "FAILED", err)
    /\ results_table' = save_result(results_table,
            [id |-> 0, table_name |-> mapping.source_table, total_rows |-> 0,
             matched_rows |-> 0, mismatched_rows |-> 0, missing_in_target |-> 0,
             extra_in_target |-> 0, status |-> "FAILED", error_message |-> err,
             progress_id |-> progress_id])
    /\ outcome' = [kind |-> "raised", error |-> err]
    /\ pc' = "idle"
    /\ LocalsEnd

\* _get_table_row_count: SELECT COUNT(*) FROM source@link
get_table_row_count(src) == Cardinality(src)

\* lines 35-41: the count, then update_progress(progress_id, 0, status="IN_PROGRESS")
GetTableRowCount ==
    /\ pc = "count"
    /\ total_rows' = get_table_row_count(source_rows)
    /\ progress_table' = update_progress(progress_table, progress_id, 0, None, "IN_PROGRESS")
    /\ pc' = "metadata"
    /\ UNCHANGED <<mapping, source_rows, target_rows, mode, progress_id, processed_rows,
                   last_key, results, chunks, results_table, outcome, inp, out>>

GetTableRowCountRaises ==
    /\ pc = "count"
    /\ Handler("CONNECTIVITY")
    /\ UNCHANGED <<mapping, source_rows, target_rows, mode, progress_id, inp, out>>

\* a loop test that also holds when processed has reached total
LoopContinues_inclusive(processed, total) == processed <= total

\* the loop test of line 169
LoopContinues(processed, total) == processed < total

\* GetColumnInfo starting a resume at the checkpoint of the attempt before,
\* with the counts at zero
GetColumnInfo_from_checkpoint ==
    /\ pc = "metadata"
    /\ results' = ZeroResults
    /\ LET resumes == mode = "resume" /\ progress_id > 1
           previous == progress_table[progress_id - 1]
           processed == IF resumes THEN previous.processed_rows ELSE 0
       IN /\ processed_rows' = processed
          /\ last_key' = IF resumes THEN previous.last_processed_key ELSE None
          /\ pc' = IF LoopContinues(processed, total_rows) THEN "chunk" ELSE "extra"
    /\ UNCHANGED <<mapping, source_rows, target_rows, mode, progress_id, total_rows,
                   chunks, progress_table, results_table, outcome, inp, out>>

\* lines 147-167: results, column info, columns, processed_rows = 0, last_key = None
GetColumnInfo ==
    /\ pc = "metadata"
    /\ results' = ZeroResults
    /\ processed_rows' = 0
    /\ last_key' = None
    /\ pc' = IF LoopContinues(0, total_rows) THEN "chunk" ELSE "extra"
    /\ UNCHANGED <<mapping, source_rows, target_rows, mode, progress_id, total_rows,
                   chunks, progress_table, results_table, outcome, inp, out>>

\* line 156 or 159: a catalog query raises
GetColumnInfoRaises ==
    /\ pc = "metadata"
    /\ Handler("CATALOG")
    /\ UNCHANGED <<mapping, source_rows, target_rows, mode, progress_id, inp, out>>

\* the chunk history kept by the model is cut off after MaxChunks chunks; a loop
\* over chunks of chunk_size >= 1 rows ends before that
MaxChunks == MaxKeyVal + 1

\* ValidateChunk whose checkpoint carries the rows of this chunk alone
ValidateChunk_checkpoints_chunk_rows ==
    /\ pc = "chunk"
    /\ Len(chunks) < MaxChunks
    /\ chunk_error(mapping, get_column_info(mapping), last_key) = ""
    /\ LET chunk_result_ == chunk_result(mapping, compare_columns(mapping),
                                         get_column_info(mapping), last_key,
                                         source_rows, target_rows)
           processed == processed_rows + chunk_result_.processed
       IN /\ results' = [results EXCEPT
                            !.matched = @ + chunk_result_.matched,
                            !.mismatched = @ + chunk_result_.mismatched,
                            !.missing_in_target = @ + chunk_result_.missing_in_target]
          /\ processed_rows' = processed
          /\ last_key' = chunk_result_.last_key
          /\ progress_table' = update_progress(progress_table, progress_id,
                                               chunk_result_.processed,
                                               chunk_result_.last_key, "IN_PROGRESS")
          /\ chunks' = Append(chunks, chunk_result_)
          /\ pc' = IF chunk_result_.processed < mapping.chunk_size THEN "extra"
                   ELSE IF LoopContinues(processed, total_rows) THEN "chunk" ELSE "extra"
    /\ UNCHANGED <<mapping, source_rows, target_rows, mode, progress_id, total_rows,
                   results_table, outcome, inp, out>>

\* ValidateChunk whose checkpoint carries the cursor the chunk was given
ValidateChunk_stale_cursor ==
    /\ pc = "chunk"
    /\ Len(chunks) < MaxChunks
    /\ chunk_error(mapping, get_column_info(mapping), last_key) = ""
    /\ LET chunk_result_ == chunk_result(mapping, compare_columns(mapping),
                                         get_column_info(mapping), last_key,
                                         source_rows, target_rows)
           processed == processed_rows + chunk_result_.processed
       IN /\ results' = [results EXCEPT
                            !.matched = @ + chunk_result_.matched,
                            !.mismatched = @ + chunk_result_.mismatched,
                            !.missing_in_target = @ + chunk_result_.missing_in_target]
          /\ processed_rows' = processed
          /\ last_key' = chunk_result_.last_key
          /\ progress_table' = update_progress(progress_table, progress_id, processed,
                                               last_key, "IN_PROGRESS")
          /\ chunks' = Append(chunks, chunk_result_)
          /\ pc' = IF chunk_result_.processed < mapping.chunk_size THEN "extra"
                   ELSE IF LoopContinues(processed, total_rows) THEN "chunk" ELSE "extra"
    /\ UNCHANGED <<mapping, source_rows, target_rows, mode, progress_id, total_rows,
                   results_table, outcome, inp, out>>

\* lines 169-215: one iteration of the chunk loop
ValidateChunk ==
    /\ pc = "chunk"
    /\ Len(chunks) < MaxChunks
    /\ chunk_error(mapping, get_column_info(mapping), last_key) = ""
    /\ LET chunk_result_ == chunk_result(mapping, compare_columns(mapping),
                                         get_column_info(mapping), last_key,
                                         source_rows, target_rows)
           processed == processed_rows + chunk_result_.processed
       IN /\ results' = [results EXCEPT
                            !.matched = @ + chunk_result_.matched,
                            !.mismatched = @ + chunk_result_.mismatched,
                            !.missing_in_target = @ + chunk_result_.missing_in_target]
          /\ processed_rows' = processed
          /\ last_key' = chunk_result_.last_key
          /\ progress_table' = update_progress(progress_table, progress_id, processed,
                                               chunk_result_.last_key, "IN_PROGRESS")
          /\ chunks' = Append(chunks, chunk_result_)
          /\ pc' = IF chunk_result_.processed < mapping.chunk_size THEN "extra"
                   ELSE IF LoopContinues(processed, total_rows) THEN "chunk" ELSE "extra"
    /\ UNCHANGED <<mapping, source_rows, target_rows, mode, progress_id, total_rows,
                   results_table, outcome, inp, out>>

\* cursor.execute raises: the block is rejected, or the link fails
ValidateChunkRaises ==
    /\ pc = "chunk"
    /\ \E err \in {chunk_error(mapping, get_column_info(mapping), last_key), "CONNECTIVITY"} \ {""} :
          Handler(err)
    /\ UNCHANGED <<mapping, source_rows, target_rows, mode, progress_id, inp, out>>

\* _count_extra_in_target: target rows with no source row of the same key
count_extra_in_target(m, column_info, src, tgt) ==
    Cardinality({t \in tgt :
        ~\E s \in src : AndAll([i \in 1..Len(m.natural_keys) |->
              Eq3(t[m.natural_keys[i]], s[m.natural_keys[i]], column_info[m.natural_keys[i]])]) = "T"})

\* lines 217-241
CountExtraInTarget ==
    /\ pc = "extra"
    /\ results' = [results EXCEPT !.extra_in_target =
                      count_extra_in_target(mapping, get_column_info(mapping), source_rows, target_rows)]
    /\ pc' = "complete"
    /\ UNCHANGED <<mapping, source_rows, target_rows, mode, progress_id, total_rows,
                   processed_rows, last_key, chunks, progress_table, results_table,
                   outcome, inp, out>>

CountExtraInTargetRaises ==
    /\ pc = "extra"
    /\ Handler("CONNECTIVITY")
    /\ UNCHANGED <<mapping, source_rows, target_rows, mode, progress_id, inp, out>>

\* CompleteProgress taken when the chunk loop has ended, the sweep left out
CompleteProgress_before_sweep ==
    /\ pc = "extra"
    /\ progress_table' = complete_progress(progress_table, progress_id, "COMPLETED", "")
    /\ pc' = "save"
    /\ UNCHANGED <<mapping, source_rows, target_rows, mode, progress_id, total_rows,
                   processed_rows, last_key, results, chunks, results_table, outcome, inp, out>>

\* line 47
CompleteProgress ==
    /\ pc = "complete"
    /\ progress_table' = complete_progress(progress_table, progress_id, "COMPLETED", "")
    /\ pc' = "save"
    /\ UNCHANGED <<mapping, source_rows, target_rows, mode, progress_id, total_rows,
                   processed_rows, last_key, results, chunks, results_table, outcome, inp, out>>

\* line 47 raises
CompleteProgressRaises ==
    /\ pc = "complete"
    /\ Handler("CONNECTIVITY")
    /\ UNCHANGED <<mapping, source_rows, target_rows, mode, progress_id, inp, out>>

\* SaveResult with status SUCCESS only when no row is mismatched, missing or extra
SaveResult_status_of_all_counts ==
    /\ pc = "save"
    /\ LET validation_result ==
              [id |-> 0, table_name |-> mapping.source_table, total_rows |-> total_rows,
               matched_rows |-> results.matched, mismatched_rows |-> results.mismatched,
               missing_in_target |-> results.missing_in_target,
               extra_in_target |-> results.extra_in_target,
               status |-> IF results.mismatched + results.missing_in_target
                                + results.extra_in_target = 0
                          THEN "SUCCESS" ELSE "PARTIAL",
               error_message |-> "", progress_id |-> progress_id]
       IN /\ results_table' = save_result(results_table, validation_result)
          /\ outcome' = [kind |-> "returned",
                         result |-> [validation_result EXCEPT !.id = Len(results_table) + 1]]
    /\ pc' = "idle"
    /\ LocalsEnd
    /\ UNCHANGED <<mapping, source_rows, target_rows, mode, progress_id, progress_table, inp, out>>

\* lines 69-98
SaveResult ==
    /\ pc = "save"
    /\ LET validation_result ==
              [id |-> 0, table_name |-> mapping.source_table, total_rows |-> total_rows,
               matched_rows |-> results.matched, mismatched_rows |-> results.mismatched,
               missing_in_target |-> results.missing_in_target,
               extra_in_target |-> results.extra_in_target,
               status |-> IF results.mismatched = 0 THEN "SUCCESS" ELSE "PARTIAL",
               error_message |-> "", progress_id |-> progress_id]
       IN /\ results_table' = save_result(results_table, validation_result)
          /\ outcome' = [kind |-> "returned",
                         result |-> [validation_result EXCEPT !.id = Len(results_table) + 1]]
    /\ pc' = "idle"
    /\ LocalsEnd
    /\ UNCHANGED <<mapping, source_rows, target_rows, mode, progress_id, progress_table, inp, out>>

\* line 86 raises: the ProgressEntry is COMPLETED already
SaveResultRaises ==
    /\ pc = "save"
    /\ Handler("CONNECTIVITY")
    /\ UNCHANGED <<mapping, source_rows, target_rows, mode, progress_id, inp, out>>

\* the process is stopped while a validation is running
Interrupt ==
    /\ pc \notin {"idle"}
    /\ pc' = "idle"
    /\ outcome' = [kind |-> "interrupted"]
    /\ LocalsEnd
    /\ UNCHANGED <<mapping, source_rows, target_rows, mode, progress_id, progress_table,
                   results_table, inp, out>>

Init ==
    /\ mapping \in Mappings
    /\ \E lay \in Layouts :
          /\ source_rows = SourceOf(mapping, lay)
          /\ target_rows = TargetOf(mapping, lay)
    /\ pc = "idle"
    /\ mode = "run"
    /\ progress_id = 0
    /\ total_rows = 0
    /\ processed_rows = 0
    /\ last_key = None
    /\ results = ZeroResults
    /\ chunks = <<>>
    /\ progress_table = <<>>
    /\ results_table = <<>>
    /\ outcome = [kind |-> "none"]
    /\ inp = <<>>
    /\ out = <<>>

Next ==
    \/ RunValidation
    \/ ResumeValidations
    \/ GetTableRowCount
    \/ GetTableRowCountRaises
    \/ GetColumnInfo
    \/ GetColumnInfoRaises
    \/ ValidateChunk
    \/ ValidateChunkRaises
    \/ CountExtraInTarget
    \/ CountExtraInTargetRaises
    \/ CompleteProgress
    \/ CompleteProgressRaises
    \/ SaveResult
    \/ SaveResultRaises
    \/ Interrupt

Spec == Init /\ [][Next]_vars

-----------------------------------------------------------------------------
(* The whole of _validate_in_chunks as one function of static data: the
   result of a run that nothing interrupts *)

RECURSIVE chunk_loop(_, _, _, _, _, _, _)
\* lines 169-215 from (processed, lastkey, acc) on
chunk_loop(m, total, processed, lastkey, acc, src, tgt) ==
    IF ~LoopContinues(processed, total) THEN [raised |-> FALSE, results |-> acc]
    ELSE IF chunk_error(m, get_column_info(m), lastkey) # "" THEN [raised |-> TRUE, results |-> acc]
    ELSE LET r == chunk_result(m, compare_columns(m), get_column_info(m), lastkey, src, tgt)
             acc2 == [acc EXCEPT !.matched = @ + r.matched,
                                 !.mismatched = @ + r.mismatched,
                                 !.missing_in_target = @ + r.missing_in_target]
         IN IF r.processed < m.chunk_size THEN [raised |-> FALSE, results |-> acc2]
            ELSE chunk_loop(m, total, processed + r.processed, r.last_key, acc2, src, tgt)

\* lines 144-241
validate_in_chunks(m, total, src, tgt) ==
    LET looped == chunk_loop(m, total, 0, None, ZeroResults, src, tgt)
    IN [looped EXCEPT !.results.extra_in_target =
            count_extra_in_target(m, get_column_info(m), src, tgt)]

-----------------------------------------------------------------------------
(* Claims on the table validation *)

Ceil(a, b) == (a + b - 1) \div b

\* the places (chunk, position) at which this attempt's chunks visited key k
Visits(k) ==
    {cn \in UNION {{<<c, n>> : n \in 1..Len(chunks[c].keys)} : c \in 1..Len(chunks)} :
        chunks[cn[1]].keys[cn[2]] = k}

SourceKeys == {KeyOf(s, mapping.natural_keys) : s \in source_rows}

TargetKeys == {KeyOf(t, mapping.natural_keys) : t \in target_rows}

\* the ProgressEntry of the running attempt has been marked COMPLETED
ReachedCompleted == pc = "save"

\* C1: when validate_table reaches COMPLETED, every source row has been
\* visited by exactly one chunk, whatever the numbers of source and target rows
C1_CompleteCoverage ==
    ReachedCompleted => \A k \in SourceKeys : Cardinality(Visits(k)) = 1

\* C2: the chunk loop performs exactly ceil(T/C) chunks and the sum of
\* matched + mismatched + missing_in_target over the chunks equals T
C2_Completeness ==
    ReachedCompleted =>
        /\ Len(chunks) = Ceil(total_rows, mapping.chunk_size)
        /\ results.matched + results.mismatched + results.missing_in_target = total_rows

\* C3: every key visited by chunk i+1 is strictly greater than the last key
\* visited by chunk i, and no key is visited by two chunks of one run
C3_NoGapNoOverlap ==
    /\ \A c \in 1..(Len(chunks) - 1) :
          chunks[c].keys # <<>> =>
             \A n \in 1..Len(chunks[c+1].keys) :
                TupleLess(chunks[c].keys[Len(chunks[c].keys)], chunks[c+1].keys[n],
                          KeyTypes(mapping.natural_keys, get_column_info(mapping)))
    /\ \A k \in TargetKeys : Cardinality({cn[1] : cn \in Visits(k)}) <= 1

\* the ProgressEntry of the attempt before the running one
PreviousProgress == progress_table[progress_id - 1]

\* the running attempt is a resume of an attempt that failed or was
\* interrupted after at least one checkpointed chunk with rows
ResumesCheckpoint ==
    /\ mode = "resume"
    /\ progress_id > 1
    /\ PreviousProgress.status \in {"FAILED", "IN_PROGRESS"}
    /\ PreviousProgress.processed_rows > 0

\* C7: a resume issues its first chunk from the persisted last_processed_key
\* and continues from the persisted processed_rows
C7_ResumeFromCheckpoint ==
    (ResumesCheckpoint /\ pc = "chunk" /\ chunks = <<>>) =>
        /\ last_key = PreviousProgress.last_processed_key
        /\ processed_rows = PreviousProgress.processed_rows

Counts(r) == <<r.matched_rows, r.mismatched_rows, r.missing_in_target, r.extra_in_target>>

UninterruptedCounts ==
    LET r == validate_in_chunks(mapping, get_table_row_count(source_rows),
                                source_rows, target_rows).results
    IN <<r.matched, r.mismatched, r.missing_in_target, r.extra_in_target>>

\* C8: over static data every validation that returns, in particular one that
\* resumes an interrupted attempt, saves the counts of an uninterrupted run
C8_ResumeIdempotence ==
    (pc = "idle" /\ outcome.kind = "returned") =>
        /\ results_table[Len(results_table)] = outcome.result
        /\ Counts(outcome.result) = UninterruptedCounts

\* C8 witness: a resume of an attempt that stopped after a checkpoint has
\* returned its result, after more than one chunk
C8_Witness ==
    /\ pc = "idle"
    /\ outcome.kind = "returned"
    /\ ResumesCheckpoint
    /\ progress_table[progress_id].processed_rows > mapping.chunk_size
    /\ outcome.result.mismatched_rows > 0

\* C9: missing_in_target is the number of source rows with no target row of
\* the same key, extra_in_target the number of target rows with no source row
C9_MissingAndExtra ==
    ReachedCompleted =>
        /\ results.missing_in_target = Cardinality(SourceKeys \ TargetKeys)
        /\ results.extra_in_target = Cardinality(TargetKeys \ SourceKeys)

\* the keys this attempt's chunks classified as st
Classified(st) ==
    UNION {{chunks[c].keys[n] : n \in {q \in 1..Len(chunks[c].keys) : chunks[c].statuses[q] = st}} :
              c \in 1..Len(chunks)}

\* C11: source rows {1,2,3}, target rows {1,3,4} with row 3 changed: a
\* completed validation has total_rows 3, matched 1 (row 1), mismatched 1
\* (row 3), missing_in_target 1 (row 2) and extra_in_target 1 (row 4)
C11_ConcreteScenario ==
    (ReachedCompleted /\ SourceKeys = {<<1>>, <<2>>, <<3>>} /\ TargetKeys = {<<1>>, <<3>>, <<4>>}) =>
        /\ total_rows = 3
        /\ results = [matched |-> 1, mismatched |-> 1, missing_in_target |-> 1,
                      extra_in_target |-> 1]
        /\ Classified("MATCH") = {<<1>>}
        /\ Classified("MISMATCH") = {<<3>>}
        /\ Classified("MISSING") = {<<2>>}
        /\ TargetKeys \ SourceKeys = {<<4>>}

\* C12: the step that ends a validation whose count, chunk loop and extra
\* sweep succeeded leaves the ProgressEntry COMPLETED, persists exactly one
\* ValidationResult with the accumulated counts, status SUCCESS iff
\* mismatched = 0 and PARTIAL otherwise, and returns that result
C12_SuccessfulCompletion ==
    [][(pc = "save" /\ outcome'.kind = "returned") =>
          /\ progress_table'[progress_id].status = "COMPLETED"
          /\ results_table' = Append(results_table, outcome'.result)
          /\ outcome'.result.progress_id = progress_id
          /\ outcome'.result.total_rows = total_rows
          /\ Counts(outcome'.result) = <<results.matched, results.mismatched,
                                         results.missing_in_target, results.extra_in_target>>
          /\ outcome'.result.status =
                (IF results.mismatched = 0 THEN "SUCCESS" ELSE "PARTIAL")]_vars

\* C12 witness: a validation has returned SUCCESS with rows missing and extra
C12_Witness ==
    /\ pc = "idle"
    /\ outcome.kind = "returned"
    /\ outcome.result.status = "SUCCESS"
    /\ outcome.result.missing_in_target > 0
    /\ outcome.result.extra_in_target > 0
    /\ progress_table[progress_id].status = "COMPLETED"

-----------------------------------------------------------------------------
(* The scenario of three source rows and three target rows *)

ScenarioMappings ==
    {[source_table |-> "SRC", target_table |-> "TGT", natural_keys |-> <<"K1">>,
      exclude_columns |-> {}, chunk_size |-> c] : c \in 1..(MaxChunkSize + 2)}

\* key number |-> where the row is
ScenarioLayout == <<"same", "src", "diff", "tgt">>

InitScenario ==
    /\ mapping \in ScenarioMappings
    /\ source_rows = SourceOf(mapping, ScenarioLayout)
    /\ target_rows = TargetOf(mapping, ScenarioLayout)
    /\ pc = "idle"
    /\ mode = "run"
    /\ progress_id = 0
    /\ total_rows = 0
    /\ processed_rows = 0
    /\ last_key = None
    /\ results = ZeroResults
    /\ chunks = <<>>
    /\ progress_table = <<>>
    /\ results_table = <<>>
    /\ outcome = [kind |-> "none"]
    /\ inp = <<>>
    /\ out = <<>>

SpecScenario == InitScenario /\ [][Next]_vars

-----------------------------------------------------------------------------
(* The chunk planner on its own: a cursor text and a target row *)

\* no table validation is running: the pure-function specifications
NoRun ==
    /\ mapping = <<>>
    /\ source_rows = {}
    /\ target_rows = {}
    /\ pc = "none"
    /\ mode = "run"
    /\ progress_id = 0
    /\ total_rows = 0
    /\ processed_rows = 0
    /\ last_key = None
    /\ results = ZeroResults
    /\ chunks = <<>>
    /\ progress_table = <<>>
    /\ results_table = <<>>
    /\ outcome = [kind |-> "none"]

KeyColumnTypes == {"VARCHAR2", "NUMBER"}

\* the values of a key column of the given type
KeyValues(type) ==
    IF type \in StringTypes THEN TextOfLen({SP, CH_a}, MaxStrLen) ELSE 1..MaxKeyVal

\* the texts a cursor component is drawn from
CursorParts == {NumToChar(v) : v \in 1..MaxKeyVal} \cup TextOfLen({SP, CH_a}, MaxStrLen)

RECURSIVE JoinCursor(_)
\* components joined by the delimiter
JoinCursor(parts) ==
    IF Len(parts) = 1 THEN parts[1] ELSE parts[1] \o DELIM \o JoinCursor(Tail(parts))

RECURSIVE KeyRows(_, _)
\* the rows over the key columns cols, each value of its column's type
KeyRows(cols, ci) ==
    IF cols = <<>> THEN {<<>>}
    ELSE {(cols[1] :> v) @@ r : v \in KeyValues(ci[cols[1]]), r \in KeyRows(Tail(cols), ci)}

InitSeek ==
    /\ NoRun
    /\ \E k \in 1..MaxKeys :
         \E ci \in [{KeyNames[i] : i \in 1..k} -> KeyColumnTypes] :
           \E parts \in UNION {[1..n -> CursorParts] : n \in 1..MaxKeys} :
             \E t \in KeyRows(SubSeq(KeyNames, 1, k), ci) :
                inp = [natural_keys |-> SubSeq(KeyNames, 1, k), column_info |-> ci,
                       last_key |-> JoinCursor(parts), t |-> t]
    /\ out = [stage |-> "input"]

\* lines 408-446: the condition built for the cursor, and the error the
\* statement raises when it is issued ("" when none)
BuildPagination ==
    /\ out.stage = "input"
    /\ LET cond == pagination_condition(inp.natural_keys, inp.column_info, inp.last_key)
       IN out' = [stage |-> "built", cond |-> cond,
                  error |-> IF ConditionParses(cond) THEN "" ELSE "ORA-00936"]
    /\ UNCHANGED <<runVars, inp>>

\* lines 523-531: the WHERE clause of c_data on target row t
FetchRow ==
    /\ out.stage = "built"
    /\ out.error = ""
    /\ out' = [stage |-> "evaluated", cond |-> out.cond, error |-> out.error,
               accepts |-> EvalPagination(out.cond, inp.t) = "T"]
    /\ UNCHANGED <<runVars, inp>>

NextSeek == BuildPagination \/ FetchRow

SpecSeek == InitSeek /\ [][NextSeek]_vars

\* the cursor splits into as many components as there are natural keys
SplitsIntoK == Len(split(inp.last_key, DELIM)) = Len(inp.natural_keys)

\* each component is the text of a value of its key column
ComponentsAreValues ==
    \A i \in 1..Len(inp.natural_keys) :
        LET part == split(inp.last_key, DELIM)[i]
        IN IF inp.column_info[inp.natural_keys[i]] \in StringTypes
           THEN part # <<>> ELSE IsDigits(part)

\* the key tuple the cursor stands for
CursorTuple ==
    [i \in 1..Len(inp.natural_keys) |->
        LET part == split(inp.last_key, DELIM)[i]
        IN IF inp.column_info[inp.natural_keys[i]] \in StringTypes
           THEN part ELSE ParseNum(part)]

\* C4: for a cursor of k components the condition accepts a row iff the
\* row's key tuple is strictly greater than the cursor tuple
C4_SeekPredicate ==
    (out.stage = "evaluated" /\ SplitsIntoK /\ ComponentsAreValues) =>
        (out.accepts <=> TupleLess(CursorTuple, KeyOf(inp.t, inp.natural_keys),
                                   KeyTypes(inp.natural_keys, inp.column_info)))

\* C6: a cursor that does not split into exactly k components makes the
\* validation fail; no chunk query is issued without a pagination condition
C6_CorruptCursorFails ==
    (out.stage \in {"built", "evaluated"} /\ ~SplitsIntoK) => out.error # ""

-----------------------------------------------------------------------------
(* The cursor codec on its own: a key tuple is encoded by the chunk's block
   and decoded by the planner of the next chunk *)

\* the boundary key of the spec: a value that contains the delimiter
BoundaryKey == <<CH_a>> \o DELIM \o <<CH_a>>

\* the values of a key column in the codec specification
CodecValues(type) ==
    IF type \in StringTypes
    THEN TextOfLen({SP, CH_a, BAR, TILDE}, MaxStrLen) \cup {BoundaryKey}
    ELSE 1..MaxKeyVal

RECURSIVE CodecRows(_, _)
CodecRows(cols, ci) ==
    IF cols = <<>> THEN {<<>>}
    ELSE {(cols[1] :> v) @@ r : v \in CodecValues(ci[cols[1]]), r \in CodecRows(Tail(cols), ci)}

InitCodec ==
    /\ NoRun
    /\ \E k \in 1..MaxKeys :
         \E ci \in [{KeyNames[i] : i \in 1..k} -> KeyColumnTypes] :
           \E t \in CodecRows(SubSeq(KeyNames, 1, k), ci) :
              inp = [natural_keys |-> SubSeq(KeyNames, 1, k), column_info |-> ci, t |-> t]
    /\ out = [stage |-> "input"]

\* lines 535-541, 557: the block leaves the key of row t in :last_key, when
\* the block is PL/SQL at all
EncodeKey ==
    /\ out.stage = "input"
    /\ out' = IF block_compiles(inp.natural_keys)
              THEN [stage |-> "encoded", error |-> "",
                    last_key |-> plsql_key_value(inp.t, inp.natural_keys, inp.column_info)]
              ELSE [stage |-> "encoded", error |-> "PLS-00103", last_key |-> None]
    /\ UNCHANGED <<runVars, inp>>

\* the cursor components a built condition compares against, <<>> when no
\* condition was built
DecodedParts(cond) ==
    IF cond = <<>> THEN <<>>
    ELSE [j \in 1..Len(cond) |-> cond[Len(cond)][j].text]

\* lines 410-433: the next chunk's planner splits and strips the cursor
DecodeKey ==
    /\ out.stage = "encoded"
    /\ out.error = ""
    /\ out' = [stage |-> "decoded", error |-> "", last_key |-> out.last_key,
               key_parts |-> DecodedParts(pagination_condition(inp.natural_keys,
                                              inp.column_info, out.last_key))]
    /\ UNCHANGED <<runVars, inp>>

NextCodec == EncodeKey \/ DecodeKey

SpecCodec == InitCodec /\ [][NextCodec]_vars

\* the k components of the key of row t, as text
KeyTexts ==
    [i \in 1..Len(inp.natural_keys) |->
        TO_CHAR(inp.t[inp.natural_keys[i]], inp.column_info[inp.natural_keys[i]])]

\* C5: decoding the cursor that encodes a key tuple yields exactly the
\* original k components
C5_CursorRoundTrip ==
    out.stage = "decoded" => out.key_parts = KeyTexts

-----------------------------------------------------------------------------
(* The row comparator on its own: one joined row of two compared columns *)

CompareTypes == {"VARCHAR2", "NUMBER", "DATE"}

\* the values of a compared column: NULL and two values
CompareValues(type) ==
    IF type \in StringTypes THEN {<<>>, <<CH_a>>, <<CH_a, SP>>} ELSE {NumNull, 1, 2}

InitCmp ==
    /\ NoRun
    /\ \E ty1 \in CompareTypes, ty2 \in CompareTypes, ex \in SUBSET {"C2"} :
         \E t1 \in CompareValues(ty1), s1 \in CompareValues(ty1) :
           \E t2 \in CompareValues(ty2), s2 \in CompareValues(ty2) :
              inp = [natural_keys |-> <<"K1">>,
                     columns |-> SelectSeq(<<"K1", "C1", "C2">>, LAMBDA c : c \notin ex),
                     column_info |-> [K1 |-> "NUMBER", C1 |-> ty1, C2 |-> ty2],
                     t |-> [K1 |-> 1, C1 |-> t1, C2 |-> t2],
                     s |-> [K1 |-> 1, C1 |-> s1, C2 |-> s2]]
    /\ out = [stage |-> "input"]

\* lines 381-402, 518-522: the status of the joined row
ClassifyRow ==
    /\ out.stage = "input"
    /\ out' = [stage |-> "classified",
               status |-> row_status(inp.columns, inp.natural_keys, inp.column_info, inp.t, inp.s),
               differs |-> [c \in {"C1", "C2"} |->
                               column_comparison(inp.column_info[c], inp.t[c], inp.s[c]) = "T"]]
    /\ UNCHANGED <<runVars, inp>>

NextCmp == ClassifyRow

SpecCmp == InitCmp /\ [][NextCmp]_vars

\* exactly one side is NULL, or both are non-NULL and unequal
Different(c) ==
    LET ty == inp.column_info[c]
        tn == IsNull(inp.t[c], ty)
        sn == IsNull(inp.s[c], ty)
    IN (tn /\ ~sn) \/ (~tn /\ sn) \/ (~tn /\ ~sn /\ inp.t[c] # inp.s[c])

ComparedColumns == {inp.columns[i] : i \in 1..Len(inp.columns)} \ {"K1"}

-----------------------------------------------------------------------------
(* The orchestrator: main, run_validation, resume_validations and the worker
   pool of _run_concurrent_validations.  inp is the configuration and the
   command line, out the state of the run.  validate_table is taken in three
   steps: it creates its ProgressEntry, it runs, and it returns or raises. *)

\* number of configured table mappings
MaxTables == 2
\* max_concurrent_validations ranges over 1..MaxWorkers
MaxWorkers == 2

table_mappings == 1..MaxTables

\* status of ValidationProgress, config.py line 94
ProgressStatuses == {"IN_PROGRESS", "COMPLETED", "FAILED", "PAUSED"}

\* the latest ProgressEntry status of table t, "NONE" without an entry
latest_status(progress, t) ==
    IF progress[t] = <<>> THEN "NONE" ELSE progress[t][Len(progress[t])]

\* is_within_window() at the moment of the call: no window configured, or
\* the clock is inside the window
WithinWindow == ~inp.run_window \/ out.window_open

\* the exit status of a process that has not ended
NotExited == 0 - 1

InitRun ==
    /\ NoRun
    /\ \E n \in 1..MaxWorkers, w \in BOOLEAN, r \in BOOLEAN :
         \E latest \in [table_mappings -> IF r THEN ProgressStatuses \cup {"NONE"} ELSE {"NONE"}] :
            inp = [max_concurrent_validations |-> n, run_window |-> w, resume |-> r,
                   latest |-> latest]
    /\ \E open \in BOOLEAN :
         /\ (~inp.run_window => open)
         /\ out = [phase |-> "main",
                   window_open |-> open,
                   selected |-> table_mappings,
                   task |-> [t \in table_mappings |-> "none"],
                   future |-> [t \in table_mappings |-> [kind |-> "pending"]],
                   progress |-> [t \in table_mappings |->
                                   IF inp.latest[t] = "NONE" THEN <<>> ELSE <<inp.latest[t]>>],
                   saved |-> {},
                   collected |-> {},
                   results |-> <<>>,
                   closed_while_running |-> {},
                   exit |-> NotExited]

\* the clock enters or leaves the run window
WindowChanges ==
    /\ inp.run_window
    /\ out.phase \notin {"main", "exited"}
    /\ out' = [out EXCEPT
                 !.window_open = ~out.window_open,
                 !.closed_while_running =
                     IF out.window_open
                     THEN @ \cup {t \in table_mappings : out.task[t] \in {"started", "running"}}
                     ELSE @]
    /\ UNCHANGED <<runVars, inp>>

\* the tables resume_validations keeps, without the status PAUSED
resumable_tables_without_paused ==
    {t \in table_mappings : latest_status(out.progress, t) \in {"IN_PROGRESS", "FAILED"}}

\* orchestrator.py lines 123-129: the tables resume_validations keeps
resumable_tables ==
    {t \in table_mappings : latest_status(out.progress, t) \in {"IN_PROGRESS", "PAUSED", "FAILED"}}

\* main.py lines 84-85, orchestrator.py lines 118-139: with --resume the
\* mappings are filtered; none left returns [], else run_validation follows
ResumeValidationsFilter ==
    /\ out.phase = "main"
    /\ inp.resume
    /\ out' = [out EXCEPT !.selected = resumable_tables,
                          !.phase = IF resumable_tables = {} THEN "returned" ELSE "run"]
    /\ UNCHANGED <<runVars, inp>>

\* main.py lines 86-87
MainRuns ==
    /\ out.phase = "main"
    /\ ~inp.resume
    /\ out' = [out EXCEPT !.phase = "run"]
    /\ UNCHANGED <<runVars, inp>>

\* orchestrator.py lines 64-78 and 88-93: the window check of the whole run,
\* initialize, and the submission of one task per mapping
RunValidationSubmits ==
    /\ out.phase = "run"
    /\ out' = IF ~WithinWindow
              THEN [out EXCEPT !.phase = "returned"]
              ELSE [out EXCEPT !.phase = "collecting",
                               !.task = [t \in table_mappings |->
                                           IF t \in out.selected THEN "queued" ELSE "none"]]
    /\ UNCHANGED <<runVars, inp>>

\* the tables a worker is busy with
Busy == {t \in table_mappings : out.task[t] \in {"started", "running"}}

\* a worker that takes a task whatever the number of busy workers
WorkerTakes_unbounded(t) ==
    /\ out.phase = "collecting"
    /\ out.task[t] = "queued"
    /\ out' = IF ~WithinWindow
              THEN [out EXCEPT !.task[t] = "done", !.future[t] = [kind |-> "None"]]
              ELSE [out EXCEPT !.task[t] = "started",
                               !.progress[t] = Append(@, "IN_PROGRESS")]
    /\ UNCHANGED <<runVars, inp>>

\* a worker that starts validate_table without the window check
WorkerTakes_unchecked(t) ==
    /\ out.phase = "collecting"
    /\ out.task[t] = "queued"
    /\ Cardinality(Busy) < inp.max_concurrent_validations
    /\ out' = [out EXCEPT !.task[t] = "started",
                          !.progress[t] = Append(@, "IN_PROGRESS")]
    /\ UNCHANGED <<runVars, inp>>

\* a free worker of ThreadPoolExecutor(max_workers) takes the task of table t:
\* orchestrator.py lines 109-116, then validate_table lines 22-31
WorkerTakes(t) ==
    /\ out.phase = "collecting"
    /\ out.task[t] = "queued"
    /\ Cardinality(Busy) < inp.max_concurrent_validations
    /\ out' = IF ~WithinWindow
              THEN [out EXCEPT !.task[t] = "done", !.future[t] = [kind |-> "None"]]
              ELSE [out EXCEPT !.task[t] = "started",
                               !.progress[t] = Append(@, "IN_PROGRESS")]
    /\ UNCHANGED <<runVars, inp>>

\* validate_table lines 33-44: the count and the chunk loop go on
ValidationRuns(t) ==
    /\ out.task[t] = "started"
    /\ out' = [out EXCEPT !.task[t] = "running"]
    /\ UNCHANGED <<runVars, inp>>

\* validate_table lines 47-98: COMPLETED, the result saved and returned
ValidationReturns(t) ==
    /\ out.task[t] = "running"
    /\ \E status \in {"SUCCESS", "PARTIAL"} :
         out' = [out EXCEPT
                   !.task[t] = "done",
                   !.progress[t] = [@ EXCEPT ![Len(@)] = "COMPLETED"],
                   !.saved = @ \cup {[table_name |-> t, status |-> status]},
                   !.future[t] = [kind |-> "result", table_name |-> t, status |-> status]]
    /\ UNCHANGED <<runVars, inp>>

\* validate_table lines 100-123: FAILED, the FAILED result saved, raise
ValidationRaises(t) ==
    /\ out.task[t] \in {"started", "running"}
    /\ out' = [out EXCEPT
                 !.task[t] = "done",
                 !.progress[t] = [@ EXCEPT ![Len(@)] = "FAILED"],
                 !.saved = @ \cup {[table_name |-> t, status |-> "FAILED"]},
                 !.future[t] = [kind |-> "exception"]]
    /\ UNCHANGED <<runVars, inp>>

\* a collecting loop that stops at the first future that raised
Collect_stops_at_exception(t) ==
    /\ out.phase = "collecting"
    /\ out.task[t] = "done"
    /\ t \notin out.collected
    /\ out' = IF out.future[t].kind = "exception"
              THEN [out EXCEPT !.collected = out.selected]
              ELSE [out EXCEPT
                      !.collected = @ \cup {t},
                      !.results = IF out.future[t].kind = "None" THEN @
                                  ELSE Append(@, out.future[t])]
    /\ UNCHANGED <<runVars, inp>>

\* orchestrator.py lines 96-105: as_completed hands over the future of table
\* t; a result is appended, None is dropped, an exception is logged
Collect(t) ==
    /\ out.phase = "collecting"
    /\ out.task[t] = "done"
    /\ t \notin out.collected
    /\ out' = [out EXCEPT
                 !.collected = @ \cup {t},
                 !.results = IF out.future[t].kind \in {"None", "exception"} THEN @
                             ELSE Append(@, out.future[t])]
    /\ UNCHANGED <<runVars, inp>>

\* orchestrator.py lines 106-107 and 81-82: every future is handled, the
\* executor is shut down, the list is returned
RunValidationReturns ==
    /\ out.phase = "collecting"
    /\ out.collected = out.selected
    /\ \A t \in out.selected : out.task[t] = "done"
    /\ out' = [out EXCEPT !.phase = "returned"]
    /\ UNCHANGED <<runVars, inp>>

\* main.py lines 102-105: the exit status
exit_status(returned) ==
    IF Cardinality({n \in 1..Len(returned) : returned[n].status = "FAILED"}) > 0 THEN 1 ELSE 0

\* main.py lines 89-112
MainExits ==
    /\ out.phase = "returned"
    /\ out' = [out EXCEPT !.phase = "exited", !.exit = exit_status(out.results)]
    /\ UNCHANGED <<runVars, inp>>

NextRun ==
    \/ WindowChanges
    \/ ResumeValidationsFilter
    \/ MainRuns
    \/ RunValidationSubmits
    \/ \E t \in table_mappings : WorkerTakes(t)
    \/ \E t \in table_mappings : ValidationRuns(t)
    \/ \E t \in table_mappings : ValidationReturns(t)
    \/ \E t \in table_mappings : ValidationRaises(t)
    \/ \E t \in table_mappings : Collect(t)
    \/ RunValidationReturns
    \/ MainExits

SpecRun == InitRun /\ [][NextRun]_vars

-----------------------------------------------------------------------------
(* Claims on the orchestrator *)

\* validate_table was entered for table t in this run
Started(t) == Len(out.progress[t]) > (IF inp.latest[t] = "NONE" THEN 0 ELSE 1)

\* run_validation has returned to main
RunIsOver == out.phase \in {"returned", "exited"}

\* the outcomes of table t in the returned list
OutcomesOf(t) == {n \in 1..Len(out.results) : out.results[n].table_name = t}

\* C14: when a table's validation raised, every other table whose task was
\* taken still reached COMPLETED or FAILED, and every other table that
\* completed has its result in the returned list
C14_Isolation ==
    RunIsOver =>
        \A f \in table_mappings : out.future[f].kind = "exception" =>
            \A t \in table_mappings \ {f} :
                /\ out.task[t] \in {"none", "done"}
                /\ Started(t) => latest_status(out.progress, t) \in {"COMPLETED", "FAILED"}
                /\ latest_status(out.progress, t) = "COMPLETED" /\ Started(t) =>
                      \E n \in OutcomesOf(t) : out.results[n] = out.future[t]

\* C14 witness: one table raised, another completed after it and is in the
\* returned list
C14_Witness ==
    /\ RunIsOver
    /\ \E f \in table_mappings, t \in table_mappings :
          /\ out.future[f].kind = "exception"
          /\ out.future[t].kind = "result"
          /\ OutcomesOf(t) # {}

\* C15: the returned list holds exactly one outcome for every table whose
\* validation was started, with status FAILED for a table that failed
C15_OneOutcomePerTable ==
    RunIsOver =>
        \A t \in table_mappings : Started(t) =>
            /\ Cardinality(OutcomesOf(t)) = 1
            /\ latest_status(out.progress, t) = "FAILED" =>
                  \A n \in OutcomesOf(t) : out.results[n].status = "FAILED"

\* C16: the process exits with a non-zero status whenever a table's
\* validation ended FAILED during the run, and with zero only if none did
C16_ExitStatus ==
    out.phase = "exited" =>
        ((\E t \in table_mappings : Started(t) /\ latest_status(out.progress, t) = "FAILED")
            => out.exit # 0)

\* the configured tables whose latest ProgressEntry before the resume is not
\* COMPLETED
NotCompletedBefore == {t \in table_mappings : inp.latest[t] \notin {"NONE", "COMPLETED"}}

\* C17: a resume hands exactly the tables whose latest ProgressEntry is
\* IN_PROGRESS, PAUSED or FAILED to the run path, validates no other table,
\* and with no such table starts nothing and returns the empty list
C17_ResumeFilter ==
    (inp.resume /\ out.phase # "main") =>
        /\ out.selected = NotCompletedBefore
        /\ \A t \in table_mappings : Started(t) \/ out.task[t] # "none" => t \in NotCompletedBefore
        /\ NotCompletedBefore = {} =>
              /\ RunIsOver
              /\ out.results = <<>>
              /\ \A t \in table_mappings : ~Started(t)

\* C17 witness: a resume has validated a table left PAUSED and has left a
\* COMPLETED table alone
C17_Witness ==
    /\ inp.resume
    /\ RunIsOver
    /\ \E t \in table_mappings, u \in table_mappings :
          /\ inp.latest[t] = "PAUSED" /\ Started(t)
          /\ inp.latest[u] = "COMPLETED" /\ ~Started(u)

\* C18: at every moment at most max_concurrent_validations validations are
\* between entering validate_table and COMPLETED or FAILED, and a table is
\* validated at most once in the run
C18_BoundedConcurrency ==
    /\ Cardinality(Busy) <= inp.max_concurrent_validations
    /\ \A t \in table_mappings :
          Len(out.progress[t]) <= (IF inp.latest[t] = "NONE" THEN 0 ELSE 1) + 1

\* C18 witness: every worker is busy and a submitted table waits
C18_Witness ==
    /\ Cardinality(Busy) = inp.max_concurrent_validations
    /\ \E t \in table_mappings : out.task[t] = "queued"

\* C19: a closed window at the check of the run or of a table creates no
\* ProgressEntry and gives no result for what the check gates, a table is
\* entered only through an open check, a change of the window changes no
\* task, and a table that was running when the window closed has reached
\* COMPLETED or FAILED when the run is over
C19_WindowGating ==
    /\ [][/\ (out.phase = "run" /\ out'.phase # "run" /\ ~WithinWindow) =>
                /\ out'.phase = "returned"
                /\ out'.progress = out.progress
                /\ out'.results = <<>>
                /\ \A t \in table_mappings : out'.task[t] = "none"
          /\ \A t \in table_mappings :
                (out.task[t] = "queued" /\ out'.task[t] # "queued" /\ ~WithinWindow) =>
                    /\ out'.progress[t] = out.progress[t]
                    /\ out'.future[t].kind = "None"
          /\ (out'.window_open # out.window_open) =>
                /\ out'.task = out.task
                /\ out'.progress = out.progress]_vars
    /\ [](RunIsOver =>
            \A t \in table_mappings :
                /\ t \in out.closed_while_running =>
                      latest_status(out.progress, t) \in {"COMPLETED", "FAILED"}
                /\ out.future[t].kind = "None" => (~Started(t) /\ OutcomesOf(t) = {}))

\* C19 witness: the run is over, one table was gated by a closed window and
\* another completed although the window closed while it was running
C19_Witness ==
    /\ RunIsOver
    /\ \E t \in table_mappings, u \in table_mappings :
          /\ t \in out.closed_while_running
          /\ latest_status(out.progress, t) = "COMPLETED"
          /\ out.future[u].kind = "None"

-----------------------------------------------------------------------------
(* The window checker on its own: utils/window_checker.py.  A time of day is
   its hour, a weekday is 0 (Monday) to 6 (Sunday). *)

\* WindowChecker(None)
NoWindow == [configured |-> FALSE]

\* start and end times of the configured windows
WindowTimes == {2, 9, 17, 22}

\* days_of_week: Monday to Friday, every day (the default), Wednesday alone,
\* no day
WindowDays == {0..4, 0..6, {2}, {}}

RunWindows ==
    {NoWindow} \cup
    {[configured |-> TRUE, start_time |-> a, end_time |-> b, days_of_week |-> d] :
        a \in WindowTimes, b \in WindowTimes, d \in WindowDays}

\* check_time: weekday() and time()
CheckTimes == {[weekday |-> d, time |-> h] : d \in 0..6, h \in 0..23}

\* is_within_window with the upper end of a window left out
is_within_window_end_exclusive(run_window, check_time) ==
    IF ~run_window.configured THEN TRUE
    ELSE LET current_time == check_time.time
             current_day == check_time.weekday
         IN IF current_day \notin run_window.days_of_week THEN FALSE
            ELSE IF run_window.start_time <= run_window.end_time
                 THEN run_window.start_time <= current_time /\ current_time < run_window.end_time
                 ELSE current_time >= run_window.start_time \/ current_time < run_window.end_time

RECURSIVE seconds_until_target(_, _, _)

\* window_checker.py lines 14-39
is_within_window(run_window, check_time) ==
    IF ~run_window.configured THEN TRUE
    ELSE LET current_time == check_time.time
             current_day == check_time.weekday
         IN IF current_day \notin run_window.days_of_week THEN FALSE
            ELSE IF run_window.start_time <= run_window.end_time
                 THEN run_window.start_time <= current_time /\ current_time <= run_window.end_time
                 ELSE current_time >= run_window.start_time \/ current_time <= run_window.end_time

InitWindow ==
    /\ NoRun
    /\ \E w \in RunWindows, c \in CheckTimes : inp = [run_window |-> w, check_time |-> c]
    /\ out = [stage |-> "input"]

IsWithinWindow ==
    /\ out.stage = "input"
    /\ out' = [stage |-> "checked", within |-> is_within_window(inp.run_window, inp.check_time)]
    /\ UNCHANGED <<runVars, inp>>

\* the seconds in one hour of the timedelta of line 73
SecondsPerHour == 3600

\* lines 56-77: the loop over days_ahead in range(7), from days_ahead on
seconds_until_target(run_window, now, days_ahead) ==
    IF days_ahead >= 7 THEN [is_none |-> TRUE, seconds |-> 0]
    ELSE LET check_day == (now.weekday + days_ahead) % 7
             seconds_until == (days_ahead * 24 + run_window.start_time - now.time) * SecondsPerHour
         IN IF check_day \in run_window.days_of_week
                  /\ ~(days_ahead = 0 /\ now.time > run_window.start_time)
            THEN [is_none |-> FALSE, seconds |-> IF seconds_until > 0 THEN seconds_until ELSE 0]
            ELSE seconds_until_target(run_window, now, days_ahead + 1)

\* window_checker.py lines 41-77
seconds_until_window_opens(run_window, now) ==
    IF ~run_window.configured THEN [is_none |-> FALSE, seconds |-> 0]
    ELSE IF is_within_window(run_window, now) THEN [is_none |-> FALSE, seconds |-> 0]
    ELSE seconds_until_target(run_window, now, 0)

\* orchestrator.py lines 68-72: the wait is asked for at check_time
SecondsUntilWindowOpens ==
    /\ out.stage = "input"
    /\ out' = [stage |-> "waited",
               result |-> seconds_until_window_opens(inp.run_window, inp.check_time)]
    /\ UNCHANGED <<runVars, inp>>

NextWindow == IsWithinWindow \/ SecondsUntilWindowOpens

SpecWindow == InitWindow /\ [][NextWindow]_vars

\* the check is made of window w at weekday d, hour h
Checked(w, d, h) ==
    /\ out.stage = "checked"
    /\ inp.run_window = w
    /\ inp.check_time = [weekday |-> d, time |-> h]

\* 09:00-17:00 on Monday to Friday
OfficeHours == [configured |-> TRUE, start_time |-> 9, end_time |-> 17, days_of_week |-> 0..4]

\* 22:00-02:00 on every day
NightHours == [configured |-> TRUE, start_time |-> 22, end_time |-> 2, days_of_week |-> 0..6]

\* C20: with no window the answer is true; otherwise it is true iff the
\* weekday is in days_of_week and the time is in [start_time, end_time], or,
\* for start_time > end_time, at or after start_time or at or before
\* end_time; the named cases of 09:00-17:00 weekdays and 22:00-02:00 follow
C20_IsWithinWindow ==
    out.stage = "checked" =>
        /\ LET w == inp.run_window
               t == inp.check_time.time
           IN out.within <=>
                \/ ~w.configured
                \/ /\ w.configured
                   /\ inp.check_time.weekday \in w.days_of_week
                   /\ IF w.start_time <= w.end_time
                      THEN w.start_time <= t /\ t <= w.end_time
                      ELSE t >= w.start_time \/ t <= w.end_time
        /\ Checked(OfficeHours, 0, 14) => out.within
        /\ Checked(OfficeHours, 0, 20) => ~out.within
        /\ Checked(OfficeHours, 5, 14) => ~out.within
        /\ \A d \in 0..6 :
              /\ Checked(NightHours, d, 23) => out.within
              /\ Checked(NightHours, d, 1) => out.within
              /\ Checked(NightHours, d, 3) => ~out.within

\* C20 witness: the midnight-crossing window 22:00-02:00 was checked at its
\* last hour, 02:00, and the answer was true
C20_Witness ==
    /\ Checked(NightHours, 1, 2)
    /\ out.within

-----------------------------------------------------------------------------
(* validate_table on live tables: the mapping's chunk_size is whatever the
   configuration holds, and other sessions delete target rows between two
   chunk queries *)

\* TableMapping.chunk_size is a plain int field: zero and negative values load
LiveMappings ==
    {[source_table |-> "SRC", target_table |-> "TGT",
      natural_keys |-> <<"K1">>, exclude_columns |-> {},
      chunk_size |-> c] : c \in (0 - 1)..MaxChunkSize}

InitLive ==
    /\ mapping \in LiveMappings
    /\ \E lay \in Layouts :
          /\ source_rows = SourceOf(mapping, lay)
          /\ target_rows = TargetOf(mapping, lay)
    /\ pc = "idle"
    /\ mode = "run"
    /\ progress_id = 0
    /\ total_rows = 0
    /\ processed_rows = 0
    /\ last_key = None
    /\ results = ZeroResults
    /\ chunks = <<>>
    /\ progress_table = <<>>
    /\ results_table = <<>>
    /\ outcome = [kind |-> "none"]
    /\ inp = <<>>
    /\ out = <<>>

\* a row of the target table is deleted while the chunk loop is between two
\* chunk queries
TargetRowDeleted ==
    /\ pc = "chunk"
    /\ \E t \in target_rows : target_rows' = target_rows \ {t}
    /\ UNCHANGED <<mapping, source_rows, pc, mode, progress_id, total_rows, processed_rows,
                   last_key, results, chunks, progress_table, results_table, outcome,
                   inp, out>>

NextLive ==
    \/ Next
    \/ TargetRowDeleted

SpecLive == InitLive /\ [][NextLive]_vars

\* C21: a mapping whose chunk_size is 0 or negative is rejected when its
\* validation starts: the validation never enters the chunk loop and never
\* issues a chunk.
C21_ChunkSizeGuard ==
    mapping.chunk_size <= 0 => (pc # "chunk" /\ chunks = <<>>)


-----------------------------------------------------------------------------
(* Claims on the checkpoints of a table validation *)

\* the ProgressEntry of the validation that is running
Entry == progress_table[progress_id]

RECURSIVE SumProcessed(_)
\* the 'processed' values of the chunks cs, added up
SumProcessed(cs) ==
    IF cs = <<>> THEN 0
    ELSE SumProcessed(SubSeq(cs, 1, Len(cs) - 1)) + cs[Len(cs)].processed

\* C22: within one ProgressEntry the persisted processed_rows starts at 0,
\* never decreases from one update to the next, and after the j-th checkpoint
\* is the sum of the 'processed' values of chunks 1..j.
C22_ProcessedRowsMonotonic ==
    /\ [](pc # "idle" => Entry.processed_rows = SumProcessed(chunks))
    /\ [][Len(progress_table') > Len(progress_table)
            => progress_table'[Len(progress_table')].processed_rows = 0]_vars
    /\ [][\A n \in 1..Len(progress_table) :
            progress_table'[n].processed_rows >= progress_table[n].processed_rows]_vars

\* two checkpoints were written and the second one raised processed_rows
C22_Witness ==
    /\ pc # "idle"
    /\ Len(chunks) = 2
    /\ chunks[1].processed > 0
    /\ Entry.processed_rows > chunks[1].processed


RECURSIVE LastReturnedCursor(_)
\* the cursor of the last row that the chunks cs returned: the last_key of the
\* latest chunk that returned a row, None when no chunk returned one
LastReturnedCursor(cs) ==
    IF cs = <<>> THEN None
    ELSE IF cs[Len(cs)].processed > 0 THEN cs[Len(cs)].last_key
    ELSE LastReturnedCursor(SubSeq(cs, 1, Len(cs) - 1))

\* C23: after every checkpoint of a ProgressEntry with processed_rows > 0 the
\* persisted last_processed_key is the cursor of the last row that a chunk of
\* this run returned; a chunk that returns no row leaves it as it was.
C23_CursorValidity ==
    (pc # "idle" /\ Entry.processed_rows > 0)
        => Entry.last_processed_key = LastReturnedCursor(chunks)


-----------------------------------------------------------------------------
(* Mismatch details: what _validate_in_chunks and validate_table do with the
   detail lists when config.store_mismatch_details is set.  inp is the
   configuration; out.results is the results dict of the run, out.plain the
   results dict the same chunk results give with detail capture disabled. *)

\* largest max_mismatch_details of the model
MaxDetailCap == 3

\* most chunks of one run of the model
MaxDetailChunks == 2

DetailConfigs == [store_mismatch_details : BOOLEAN, max_mismatch_details : 0..MaxDetailCap]

Repeat(x, n) == [i \in 1..n |-> x]

\* the Python slice details[:n], n > 0
Take(details, n) == SubSeq(details, 1, Min(n, Len(details)))

\* lines 632-691: the lists _execute_chunk_validation can return as
\* 'mismatch_details'.  When the table names are read back from the block
\* (extracted), each lookup returns up to limit rows (ROWNUM <= limit);
\* otherwise each kind gets one generic detail.  A lookup that raises
\* contributes nothing.
chunk_mismatch_details(config, mismatched_val, missing_val, extracted) ==
    IF ~((mismatched_val > 0 \/ missing_val > 0) /\ config.store_mismatch_details)
    THEN {<<>>}
    ELSE LET max_details_to_get == Min(20, config.max_mismatch_details)
             limit == max_details_to_get \div 2
             lengths == IF extracted THEN 0..limit ELSE {1}
             column == IF mismatched_val > 0
                       THEN {Repeat("COLUMN_MISMATCH", n) : n \in lengths} ELSE {<<>>}
             missing == IF missing_val > 0
                        THEN {Repeat("MISSING_IN_TARGET", n) : n \in lengths} ELSE {<<>>}
         IN {c \o m : c \in column, m \in missing}

\* accumulate_chunk that adds every detail of the chunk while capacity is left
accumulate_chunk_unsliced(res, chunk_result_, config) ==
    LET counted == [res EXCEPT !.matched = @ + chunk_result_.matched,
                               !.mismatched = @ + chunk_result_.mismatched,
                               !.missing_in_target = @ + chunk_result_.missing_in_target]
        remaining_capacity == config.max_mismatch_details - Len(res.mismatch_details)
    IN IF config.store_mismatch_details /\ remaining_capacity > 0
       THEN [counted EXCEPT !.mismatch_details = @ \o chunk_result_.mismatch_details]
       ELSE counted

\* lines 191-206
accumulate_chunk(res, chunk_result_, config) ==
    LET counted == [res EXCEPT !.matched = @ + chunk_result_.matched,
                               !.mismatched = @ + chunk_result_.mismatched,
                               !.missing_in_target = @ + chunk_result_.missing_in_target]
        remaining_capacity == config.max_mismatch_details - Len(res.mismatch_details)
    IN IF config.store_mismatch_details /\ remaining_capacity > 0
       THEN [counted EXCEPT !.mismatch_details =
                @ \o Take(chunk_result_.mismatch_details, remaining_capacity)]
       ELSE counted

\* lines 1040-1106: what _count_extra_in_target returns for count extra rows,
\* a plain count or the tuple (count, details)
extra_result(config, count) ==
    IF ~config.store_mismatch_details \/ count = 0
    THEN [tuple |-> FALSE, count |-> count, details |-> <<>>]
    ELSE [tuple |-> TRUE, count |-> count,
          details |-> Repeat("EXTRA_IN_TARGET", Min(count, config.max_mismatch_details))]

\* lines 226-239
accumulate_extra(res, extra_result_, config) ==
    LET counted == [res EXCEPT !.extra_in_target = extra_result_.count]
        remaining_capacity == config.max_mismatch_details - Len(res.mismatch_details)
    IN IF extra_result_.tuple /\ config.store_mismatch_details
          /\ remaining_capacity > 0 /\ extra_result_.details # <<>>
       THEN [counted EXCEPT !.mismatch_details =
                @ \o Take(extra_result_.details, remaining_capacity)]
       ELSE counted

\* lines 147-153
NoDetails ==
    [matched |-> 0, mismatched |-> 0, missing_in_target |-> 0, extra_in_target |-> 0,
     mismatch_details |-> <<>>]

PlainConfig == [inp EXCEPT !.store_mismatch_details = FALSE]

InitDetail ==
    /\ NoRun
    /\ inp \in DetailConfigs
    /\ out = [phase |-> "chunks", n |-> 0, results |-> NoDetails, plain |-> NoDetails,
              offered |-> 0, detail_errors |-> 0, saved |-> 0, column_lookups |-> 1]

\* lines 185-206: a chunk returns and is accumulated; the detail lookups of
\* lines 638-691 may raise, which the executor logs.  _get_column_mismatch_details
\* starts with self._get_table_columns (line 812), a query on user_tab_columns
\* over the link; column_lookups counts these queries, the first one being
\* line 159.
ChunkAccumulates ==
    /\ out.phase = "chunks"
    /\ out.n < MaxDetailChunks
    /\ \E matched \in 0..1, mismatched \in 0..1, missing \in 0..1,
          raises \in BOOLEAN, extracted \in BOOLEAN :
         \E details \in chunk_mismatch_details(inp, mismatched, missing, extracted) :
            LET capture == (mismatched > 0 \/ missing > 0) /\ inp.store_mismatch_details
                counts == [matched |-> matched, mismatched |-> mismatched,
                           missing_in_target |-> missing, mismatch_details |-> <<>>]
                chunk_result_ == [counts EXCEPT !.mismatch_details =
                                     IF raises THEN <<>> ELSE details]
            IN /\ raises => capture
               /\ out' = [out EXCEPT
                            !.n = @ + 1,
                            !.results = accumulate_chunk(@, chunk_result_, inp),
                            !.plain = accumulate_chunk(@, counts, PlainConfig),
                            !.offered = @ + Len(chunk_result_.mismatch_details),
                            !.detail_errors = @ + (IF raises THEN 1 ELSE 0),
                            !.column_lookups = @ + (IF capture /\ extracted /\ mismatched > 0
                                                   THEN 1 ELSE 0)]
    /\ UNCHANGED <<runVars, inp>>

\* lines 169, 214: the loop is left
ChunkLoopEnds ==
    /\ out.phase = "chunks"
    /\ out' = [out EXCEPT !.phase = "extra"]
    /\ UNCHANGED <<runVars, inp>>

\* lines 217-241: the extra sweep returns and is accumulated
ExtraAccumulates ==
    /\ out.phase = "extra"
    /\ \E count \in 0..MaxDetailChunks :
          out' = [out EXCEPT
                    !.phase = "save",
                    !.results = accumulate_extra(@, extra_result(inp, count), inp),
                    !.plain = accumulate_extra(@, extra_result(PlainConfig, count), PlainConfig),
                    !.offered = @ + Len(extra_result(inp, count).details)]
    /\ UNCHANGED <<runVars, inp>>

\* lines 1093: the detail query of the extra sweep raises; nothing catches it
\* before the except branch of validate_table (lines 100-123)
ExtraDetailQueryRaises ==
    /\ out.phase = "extra"
    /\ inp.store_mismatch_details
    /\ out' = [out EXCEPT !.phase = "failed", !.detail_errors = @ + 1]
    /\ UNCHANGED <<runVars, inp>>

\* lines 53-98: the result is saved, then its details; save_mismatch_details
\* catches and logs what its inserts raise (repository.py 274-278)
SaveDetails ==
    /\ out.phase = "save"
    /\ \E raises \in BOOLEAN :
          LET mismatch_details == IF inp.store_mismatch_details
                                  THEN out.results.mismatch_details ELSE <<>>
          IN /\ raises => mismatch_details # <<>>
             /\ out' = [out EXCEPT
                          !.phase = "returned",
                          !.saved = IF raises THEN 0 ELSE Len(mismatch_details),
                          !.detail_errors = @ + (IF raises THEN 1 ELSE 0)]
    /\ UNCHANGED <<runVars, inp>>

NextDetail ==
    \/ ChunkAccumulates
    \/ ChunkLoopEnds
    \/ ExtraAccumulates
    \/ ExtraDetailQueryRaises
    \/ SaveDetails

SpecDetail == InitDetail /\ [][NextDetail]_vars

\* the four counts of a results dict
CountsOf(res) == <<res.matched, res.mismatched, res.missing_in_target, res.extra_in_target>>

\* C24: with detail capture enabled the details accumulated for the table,
\* from all chunks and the extra sweep together, never exceed
\* max_mismatch_details; once the cap is reached no detail is added; and the
\* four counts are the ones the same run gives with detail capture disabled.
C24_DetailCap ==
    /\ [](/\ Len(out.results.mismatch_details) <= inp.max_mismatch_details
          /\ out.saved <= inp.max_mismatch_details
          /\ out.phase # "failed" => CountsOf(out.results) = CountsOf(out.plain))
    /\ [][Len(out.results.mismatch_details) >= inp.max_mismatch_details
            => out'.results.mismatch_details = out.results.mismatch_details]_vars

\* the cap was reached and details offered after it were dropped, while the
\* counts went on
C24_Witness ==
    /\ inp.store_mismatch_details
    /\ inp.max_mismatch_details > 0
    /\ Len(out.results.mismatch_details) = inp.max_mismatch_details
    /\ out.offered > inp.max_mismatch_details
    /\ out.phase = "returned"
    /\ out.results.mismatched + out.results.missing_in_target + out.results.extra_in_target
          > inp.max_mismatch_details

\* C25: a failure of a best-effort detail operation (a per-chunk detail lookup,
\* the detail query of the extra sweep, saving the details) never makes the
\* table validation end FAILED.
C25_DetailErrorsSwallowed ==
    out.detail_errors > 0 => out.phase # "failed"


-----------------------------------------------------------------------------
(* The queries of one validation of a mapping with a where_clause: the row
   count and the extra sweep *)

\* TableMapping.where_clause: None, or the predicate <column> = <value>
NoWhere == [column |-> "", value |-> 0]

WhereClauses == {NoWhere} \cup {[column |-> "VAL", value |-> v] : v \in 1..2}

\* the rows a WHERE <where_clause> keeps
where_holds(row, where_clause) ==
    \/ where_clause = NoWhere
    \/ Eq3(row[where_clause.column], where_clause.value, "NUMBER") = "T"

\* _get_table_row_count with a where_clause: SELECT COUNT(*) FROM source@link
\* WHERE <where_clause>
row_count(src, where_clause) == Cardinality({r \in src : where_holds(r, where_clause)})

InitSweep ==
    /\ NoRun
    /\ \E w \in WhereClauses, lay \in Layouts :
          LET m == [source_table |-> "SRC", target_table |-> "TGT",
                    natural_keys |-> <<"K1">>, exclude_columns |-> {},
                    chunk_size |-> 1, where_clause |-> w]
          IN inp = [mapping |-> m, source_rows |-> SourceOf(m, lay),
                    target_rows |-> TargetOf(m, lay)]
    /\ out = [stage |-> "start", total_rows |-> 0, extra_in_target |-> 0]

\* lines 35-40
CountRows ==
    /\ out.stage = "start"
    /\ out' = [out EXCEPT !.stage = "counted",
                          !.total_rows = row_count(inp.source_rows, inp.mapping.where_clause)]
    /\ UNCHANGED <<runVars, inp>>

\* lines 217-224: the sweep is called with the tables, the natural keys and
\* the incremental settings of the mapping
SweepExtra ==
    /\ out.stage = "counted"
    /\ out' = [out EXCEPT !.stage = "swept",
                          !.extra_in_target =
                              count_extra_in_target(inp.mapping, get_column_info(inp.mapping),
                                                    inp.source_rows, inp.target_rows)]
    /\ UNCHANGED <<runVars, inp>>

NextSweep ==
    \/ CountRows
    \/ SweepExtra

SpecSweep == InitSweep /\ [][NextSweep]_vars

\* C26: the extra-in-target count is taken over the target rows that the
\* mapping's WHERE predicate keeps: it is the number of those rows that have no
\* source row of the same natural key, and a target row that the predicate
\* excludes is never counted as extra.
C26_ExtraSweepFilter ==
    out.stage = "swept" =>
        out.extra_in_target =
            Cardinality({t \in inp.target_rows :
                /\ where_holds(t, inp.mapping.where_clause)
                /\ \A r \in inp.source_rows : r.K1 # t.K1})


-----------------------------------------------------------------------------
(* Claims on the steps of a table validation *)

\* C27: when the count query returns total_rows = 0, validate_table issues no
\* chunk and writes no chunk checkpoint, goes on to the extra sweep, and
\* returns matched = mismatched = missing_in_target = 0 with extra_in_target
\* the count of the sweep.
C27_EmptySource ==
    /\ []((pc \in {"chunk", "extra", "complete", "save"} /\ total_rows = 0)
            => /\ pc # "chunk"
               /\ chunks = <<>>
               /\ Entry.processed_rows = 0
               /\ Entry.last_processed_key = None
               /\ results.matched = 0
               /\ results.mismatched = 0
               /\ results.missing_in_target = 0)
    /\ [][(pc = "metadata" /\ total_rows = 0 /\ pc' # "idle") => pc' = "extra"]_vars
    /\ [][(pc = "save" /\ total_rows = 0 /\ outcome'.kind = "returned")
            => /\ outcome'.result.matched_rows = 0
               /\ outcome'.result.mismatched_rows = 0
               /\ outcome'.result.missing_in_target = 0
               /\ outcome'.result.extra_in_target =
                     count_extra_in_target(mapping, get_column_info(mapping),
                                           source_rows, target_rows)]_vars

\* a validation of an empty source returned a result with extra rows
C27_Witness ==
    /\ outcome.kind = "returned"
    /\ outcome.result.total_rows = 0
    /\ source_rows = {}
    /\ outcome.result.extra_in_target > 0
    /\ progress_table[outcome.result.progress_id].status = "COMPLETED"


\* C28: the chunks of one table validation are strictly sequential: a chunk is
\* issued only when the chunk before it has returned and its checkpoint
\* (accumulated processed_rows, that chunk's cursor, status IN_PROGRESS) is
\* written, and the cursor it is given is the cursor of that checkpoint.
C28_CheckpointOrdering ==
    /\ [][Len(chunks') = Len(chunks) + 1
            => /\ pc = "chunk"
               /\ SubSeq(chunks', 1, Len(chunks)) = chunks
               /\ Entry.status = "IN_PROGRESS"
               /\ Entry.processed_rows = SumProcessed(chunks)
               /\ chunks # <<>> => Entry.last_processed_key = chunks[Len(chunks)].last_key
               /\ chunks'[Len(chunks')].cursor = Entry.last_processed_key]_vars
    /\ [](\A i \in 1..(Len(chunks) - 1) : chunks[i + 1].cursor = chunks[i].last_key)

\* a second chunk was issued with the cursor that the first chunk checkpointed
C28_Witness ==
    /\ pc # "idle"
    /\ Len(chunks) = 2
    /\ chunks[2].cursor # None
    /\ chunks[2].cursor = chunks[1].last_key


\* C29: when a chunk fails, the ProgressEntry goes to FAILED by a change of its
\* status, error_message and completion time alone: processed_rows and
\* last_processed_key stay what the checkpoint of the chunk before wrote, the
\* failed chunk adds nothing, and no other entry changes.
C29_CheckpointPreserved ==
    [][(pc = "chunk" /\ outcome'.kind = "raised")
         => /\ Entry.processed_rows = SumProcessed(chunks)
            /\ Entry.last_processed_key =
                  (IF chunks = <<>> THEN None ELSE chunks[Len(chunks)].last_key)
            /\ progress_table' =
                  [progress_table EXCEPT ![progress_id] =
                      [@ EXCEPT !.status = "FAILED", !.completed_at = TRUE,
                                !.error_message = outcome'.error]]]_vars

\* chunk 1 of two was checkpointed, chunk 2 failed, and the FAILED entry holds
\* the checkpoint of chunk 1
C29_Witness ==
    /\ outcome.kind = "raised"
    /\ mapping.chunk_size = 1
    /\ Cardinality(source_rows) = 2
    /\ Cardinality(target_rows) = 2
    /\ progress_table # <<>>
    /\ progress_table[Len(progress_table)].status = "FAILED"
    /\ progress_table[Len(progress_table)].processed_rows = 1
    /\ progress_table[Len(progress_table)].last_processed_key # None


\* C30: a table validation goes through its phases in the order CREATED,
\* COUNTING, CHUNKING, EXTRA_SWEEP, COMPLETED, and can fail in any of them: the
\* count query comes before the first chunk, the extra sweep runs once and
\* after the last chunk, and a ProgressEntry is marked COMPLETED only when the
\* extra sweep has returned.
C30_StateOrder ==
    /\ [][pc' # pc
            => \/ pc' = "idle" /\ (pc = "save" \/ outcome'.kind \in {"raised", "interrupted"})
               \/ pc = "idle" /\ pc' = "count"
               \/ pc = "count" /\ pc' = "metadata"
               \/ pc = "metadata" /\ pc' \in {"chunk", "extra"}
               \/ pc = "chunk" /\ pc' = "extra"
               \/ pc = "extra" /\ pc' = "complete"
               \/ pc = "complete" /\ pc' = "save"]_vars
    /\ [](pc \in {"count", "metadata"} => chunks = <<>>)
    /\ [][\A n \in 1..Len(progress_table') :
            (progress_table'[n].status = "COMPLETED"
               /\ (n > Len(progress_table) \/ progress_table[n].status # "COMPLETED"))
            => /\ pc = "complete"
               /\ n = progress_id
               /\ results.extra_in_target =
                     count_extra_in_target(mapping, get_column_info(mapping),
                                           source_rows, target_rows)]_vars

\* a validation went through the chunk loop and the extra sweep, and returned
\* with its ProgressEntry COMPLETED
C30_Witness ==
    /\ outcome.kind = "returned"
    /\ pc = "idle"
    /\ progress_table[outcome.result.progress_id].status = "COMPLETED"
    /\ progress_table[outcome.result.progress_id].processed_rows > 0
    /\ outcome.result.extra_in_target > 0
    /\ outcome.result.matched_rows > 0


-----------------------------------------------------------------------------
(* Termination of the chunk loop: lines 166-215 over any chunk results.  inp is
   the mapping's chunk_size and the counted total_rows; each chunk returns a
   'processed' between 0 and chunk_size, whatever the tables hold then. *)

InitLoop ==
    /\ NoRun
    /\ inp \in [chunk_size : 1..(MaxChunkSize + 1), total_rows : 0..(MaxKeyVal + 2)]
    /\ out = [phase |-> IF LoopContinues(0, inp.total_rows) THEN "loop" ELSE "extra",
              processed_rows |-> 0, chunks |-> 0, short |-> FALSE]

\* ChunkReturns without the exit of line 214 on a short chunk
ChunkReturns_no_short_exit ==
    /\ out.phase = "loop"
    /\ out.chunks <= inp.total_rows
    /\ \E processed \in 0..inp.chunk_size :
          LET processed_rows_ == out.processed_rows + processed
          IN out' = [phase |-> IF LoopContinues(processed_rows_, inp.total_rows)
                               THEN "loop" ELSE "extra",
                     processed_rows |-> processed_rows_,
                     chunks |-> out.chunks + 1,
                     short |-> processed < inp.chunk_size]
    /\ UNCHANGED <<runVars, inp>>

\* lines 169-215: a chunk returns; the model stops counting chunks beyond
\* total_rows + 1
ChunkReturns ==
    /\ out.phase = "loop"
    /\ out.chunks <= inp.total_rows
    /\ \E processed \in 0..inp.chunk_size :
          LET processed_rows_ == out.processed_rows + processed
          IN out' = [phase |-> IF processed < inp.chunk_size THEN "extra"
                               ELSE IF LoopContinues(processed_rows_, inp.total_rows)
                                    THEN "loop" ELSE "extra",
                     processed_rows |-> processed_rows_,
                     chunks |-> out.chunks + 1,
                     short |-> processed < inp.chunk_size]
    /\ UNCHANGED <<runVars, inp>>

\* lines 185-189 raise: the except branch marks the ProgressEntry FAILED
ChunkRaises ==
    /\ out.phase = "loop"
    /\ out' = [out EXCEPT !.phase = "FAILED"]
    /\ UNCHANGED <<runVars, inp>>

\* lines 217-241 and 47: the sweep returns and the ProgressEntry is COMPLETED
SweepReturns ==
    /\ out.phase = "extra"
    /\ out' = [out EXCEPT !.phase = "COMPLETED"]
    /\ UNCHANGED <<runVars, inp>>

\* lines 218-224 raise
SweepRaises ==
    /\ out.phase = "extra"
    /\ out' = [out EXCEPT !.phase = "FAILED"]
    /\ UNCHANGED <<runVars, inp>>

NextLoop ==
    \/ ChunkReturns
    \/ ChunkRaises
    \/ SweepReturns
    \/ SweepRaises

\* validate_table runs in one worker thread: a call that can return does
\* return, unless it raises
SpecLoopFair ==
    InitLoop /\ [][NextLoop]_vars /\ WF_vars(ChunkReturns) /\ WF_vars(SweepReturns)

\* C31: for chunk_size >= 1 and any chunk results with 0 <= processed <=
\* chunk_size, the chunk loop is left after a chunk of fewer than chunk_size
\* rows or as soon as processed_rows >= total_rows, after at most
\* ceil(total_rows / chunk_size) chunks, and the validation reaches COMPLETED or
\* FAILED.
C31_Termination ==
    /\ [](/\ out.chunks <= Ceil(inp.total_rows, inp.chunk_size)
          /\ out.phase = "loop" => (~out.short /\ out.processed_rows < inp.total_rows)
          /\ (out.phase = "extra" /\ out.chunks > 0)
                => (out.short \/ out.processed_rows >= inp.total_rows))
    /\ (out.phase \in {"loop", "extra"}) ~> (out.phase \in {"COMPLETED", "FAILED"})

\* the loop was left by a short chunk after a full one, before processed_rows
\* reached total_rows, and the validation is COMPLETED
C31_Witness ==
    /\ out.phase = "COMPLETED"
    /\ out.chunks = 2
    /\ out.short
    /\ out.processed_rows < inp.total_rows


-----------------------------------------------------------------------------
(* Claims on the counts of a table validation *)

\* C32: every row a chunk visits gets exactly one of MATCH, MISMATCH and
\* MISSING, MISSING whenever it has no source row; a chunk processes at most
\* chunk_size rows; and at every checkpoint matched + mismatched +
\* missing_in_target accumulated so far is the persisted processed_rows.
C32_RunningCounts ==
    /\ \A i \in 1..Len(chunks) :
          LET c == chunks[i]
          IN /\ c.processed <= mapping.chunk_size
             /\ Len(c.statuses) = c.processed
             /\ c.matched + c.mismatched + c.missing_in_target = c.processed
             /\ \A n \in 1..c.processed :
                   /\ c.statuses[n] \in {"MATCH", "MISMATCH", "MISSING"}
                   /\ (c.statuses[n] = "MISSING") <=> (c.keys[n] \notin SourceKeys)
    /\ pc # "idle"
          => results.matched + results.mismatched + results.missing_in_target
                = Entry.processed_rows

\* a checkpoint after a chunk that held a row without source row and a row
\* with a different value
C32_Witness ==
    /\ pc # "idle"
    /\ chunks # <<>>
    /\ results.missing_in_target > 0
    /\ results.mismatched > 0
    /\ Entry.processed_rows = 2


-----------------------------------------------------------------------------
(* Claims on the catalog lookups of a table validation *)

\* C33: during one table validation the catalog lookup of the table's columns
\* is made once and its result reused: the chunk loop, the per-chunk detail
\* collection and the extra sweep issue no further one.
C33_MetadataReadOnce ==
    out.column_lookups = 1


-----------------------------------------------------------------------------
(* Claims on the ProgressEntry of a validation attempt *)

\* C36: every call of validate_table creates exactly one new ProgressEntry,
\* IN_PROGRESS with processed_rows 0, and updates only that entry: no entry is
\* ever deleted, no entry of another attempt is modified, and the only statuses
\* written are IN_PROGRESS, COMPLETED and FAILED.
C36_ProgressEntryLifecycle ==
    /\ [](\A n \in 1..Len(progress_table) :
             progress_table[n].status \in {"IN_PROGRESS", "COMPLETED", "FAILED"})
    /\ [][IF pc = "idle" /\ pc' # "idle"
          THEN /\ Len(progress_table') = Len(progress_table) + 1
               /\ progress_id' = Len(progress_table')
               /\ progress_table'[progress_id'].status = "IN_PROGRESS"
               /\ progress_table'[progress_id'].processed_rows = 0
               /\ \A n \in 1..Len(progress_table) : progress_table'[n] = progress_table[n]
          ELSE /\ Len(progress_table') = Len(progress_table)
               /\ progress_id' = progress_id
               /\ \A n \in 1..Len(progress_table) :
                     n # progress_id => progress_table'[n] = progress_table[n]]_vars

\* a second attempt on the table has checkpointed a chunk, and the FAILED entry
\* of the first attempt still holds its own checkpoint
C36_Witness ==
    /\ pc # "idle"
    /\ Len(progress_table) = 2
    /\ progress_id = 2
    /\ progress_table[1].status = "FAILED"
    /\ progress_table[1].processed_rows = 1
    /\ progress_table[2].status = "IN_PROGRESS"
    /\ progress_table[2].processed_rows = 2


\* C37: a ProgressEntry marked COMPLETED keeps that status for ever, also when
\* persisting the ValidationResult fails after the mark, and an entry marked
\* FAILED never becomes COMPLETED.
C37_TerminalStatusStable ==
    [][\A n \in 1..Len(progress_table) :
          /\ progress_table[n].status = "COMPLETED" => progress_table'[n].status = "COMPLETED"
          /\ progress_table[n].status = "FAILED" => progress_table'[n].status # "COMPLETED"]_vars


\* C38: from the end of the count until the ProgressEntry is terminal, the
\* total_rows it holds in the progress store is the row count that the count
\* query of the validation returned.
C38_PersistedTotalRows ==
    (pc \in {"metadata", "chunk", "extra", "complete"} /\ Entry.status = "IN_PROGRESS")
        => Entry.total_rows = total_rows


-----------------------------------------------------------------------------
(* The pool registry: db/connection.py.  MaxCallers threads use the pool of one
   endpoint (one pool_key) for the first time, through one shared
   OracleConnectionManager or through a manager each.  out.pools is the
   registry entry cls._pools[pool_key] (0: no entry), out.manager_pool the
   _pool field of each manager, out.pool and out.pc the local 'pool' and the
   position of each caller, out.got what the property returned to it.  Pools
   are numbered in the order of their creation. *)

MaxCallers == 2

Callers == 1..MaxCallers

\* the OracleConnectionManager that caller t uses
ManagerOf(t) == IF inp.managers = "shared" THEN 1 ELSE t

InitPool ==
    /\ NoRun
    /\ inp \in [managers : {"shared", "own"}]
    /\ out = [pools |-> 0,
              manager_pool |-> [m \in Callers |-> 0],
              created |-> 0,
              registered |-> {},
              closed |-> {},
              pc |-> [t \in Callers |-> "pool"],
              pool |-> [t \in Callers |-> 0],
              got |-> [t \in Callers |-> 0]]

\* lines 145-148: 'if not self._pool'
PoolProperty(t) ==
    /\ out.pc[t] = "pool"
    /\ out' = IF out.manager_pool[ManagerOf(t)] # 0
              THEN [out EXCEPT !.pc[t] = "done", !.got[t] = out.manager_pool[ManagerOf(t)]]
              ELSE [out EXCEPT !.pc[t] = "lookup"]
    /\ UNCHANGED <<runVars, inp>>

\* lines 40-44: 'if pool_key in cls._pools: pool = cls._pools[pool_key]'
Lookup(t) ==
    /\ out.pc[t] = "lookup"
    /\ out' = IF out.pools # 0
              THEN [out EXCEPT !.pc[t] = "test", !.pool[t] = out.pools]
              ELSE [out EXCEPT !.pc[t] = "create"]
    /\ UNCHANGED <<runVars, inp>>

\* lines 45-52: SELECT 1 FROM DUAL on the pool found; a closed pool fails it,
\* an open one may
TestPool(t) ==
    /\ out.pc[t] = "test"
    /\ \E valid \in BOOLEAN :
          /\ valid => out.pool[t] \notin out.closed
          /\ out' = [out EXCEPT !.pc[t] = IF valid THEN "assign" ELSE "discard"]
    /\ UNCHANGED <<runVars, inp>>

\* lines 54-59: the entry that is in the registry now is closed and deleted
Discard(t) ==
    /\ out.pc[t] = "discard"
    /\ out' = IF out.pools # 0
              THEN [out EXCEPT !.pc[t] = "create", !.closed = @ \cup {out.pools}, !.pools = 0]
              ELSE [out EXCEPT !.pc[t] = "create"]
    /\ UNCHANGED <<runVars, inp>>

\* lines 66-95: oracledb.create_pool, with the DSN string or with makedsn
CreatePool(t) ==
    /\ out.pc[t] = "create"
    /\ out' = [out EXCEPT !.pc[t] = "store", !.created = @ + 1, !.pool[t] = out.created + 1]
    /\ UNCHANGED <<runVars, inp>>

\* lines 84-95: the second create_pool raises too, and get_pool raises
CreatePoolRaises(t) ==
    /\ out.pc[t] = "create"
    /\ out' = [out EXCEPT !.pc[t] = "raised"]
    /\ UNCHANGED <<runVars, inp>>

\* lines 97-100: 'cls._pools[pool_key] = pool'
StorePool(t) ==
    /\ out.pc[t] = "store"
    /\ out' = [out EXCEPT !.pc[t] = "assign", !.pools = out.pool[t],
                          !.registered = @ \cup {out.pool[t]}]
    /\ UNCHANGED <<runVars, inp>>

\* line 149: 'self._pool = OracleConnectionPool.get_pool(...)'
Assign(t) ==
    /\ out.pc[t] = "assign"
    /\ out' = [out EXCEPT !.pc[t] = "return", !.manager_pool[ManagerOf(t)] = out.pool[t]]
    /\ UNCHANGED <<runVars, inp>>

\* line 155: 'return self._pool'
Return(t) ==
    /\ out.pc[t] = "return"
    /\ out' = [out EXCEPT !.pc[t] = "done", !.got[t] = out.manager_pool[ManagerOf(t)]]
    /\ UNCHANGED <<runVars, inp>>

NextPool ==
    \E t \in Callers :
        \/ PoolProperty(t)
        \/ Lookup(t)
        \/ TestPool(t)
        \/ Discard(t)
        \/ CreatePool(t)
        \/ CreatePoolRaises(t)
        \/ StorePool(t)
        \/ Assign(t)
        \/ Return(t)

SpecPool == InitPool /\ [][NextPool]_vars

\* C35: whatever the interleaving of the callers' first uses of the pool of one
\* endpoint, one pool is created for the endpoint, the callers obtain the same
\* pool, and no pool leaves the registry without being closed.
C35_PoolRegistry ==
    /\ Cardinality({p \in 1..out.created : p \notin out.closed}) <= 1
    /\ \A p \in out.registered : p = out.pools \/ p \in out.closed
    /\ \A t, u \in Callers :
          (/\ out.pc[t] = "done" /\ out.got[t] \notin out.closed
           /\ out.pc[u] = "done" /\ out.got[u] \notin out.closed)
             => out.got[t] = out.got[u]


-----------------------------------------------------------------------------
(* Claims on the wait for the run window *)

\* the hours from check time c to the next start_time of window w that falls on
\* an allowed weekday, today's included when it has not passed
HoursToNextStart(w, c) ==
    LET waits == {d * 24 + w.start_time - c.time : d \in {e \in 0..7 :
                      /\ (c.weekday + e) % 7 \in w.days_of_week
                      /\ e * 24 + w.start_time - c.time >= 0}}
    IN CHOOSE h \in waits : \A g \in waits : h <= g

\* C39: seconds_until_window_opens returns 0 with no window and inside the
\* window; outside a window with a non-empty days_of_week it returns an
\* integer, never None, that is the number of seconds from now to the next
\* start_time on an allowed weekday, also when today is the only allowed
\* weekday and today's start_time has passed.
C39_SecondsUntilWindowOpens ==
    out.stage = "waited"
       => IF ~inp.run_window.configured THEN out.result = [is_none |-> FALSE, seconds |-> 0]
          ELSE IF is_within_window(inp.run_window, inp.check_time)
               THEN out.result = [is_none |-> FALSE, seconds |-> 0]
          ELSE inp.run_window.days_of_week # {}
                  => /\ ~out.result.is_none
                     /\ out.result.seconds >= 0
                     /\ out.result.seconds
                           = HoursToNextStart(inp.run_window, inp.check_time) * SecondsPerHour


-----------------------------------------------------------------------------
(* Incremental mode: the lower bound of the queries of one table validation.
   out.results_table is the result store (table_name, status, completed_at),
   out.clock the time of the next result saved.  A validation of table "T" in
   incremental mode issues its count query, its chunk queries and its extra
   sweep; out.used records, per query, the bound it put into its text ({}: no
   bound) and the result store it read.  Other validations save their results
   meanwhile: the other workers of _run_concurrent_validations (a second
   mapping of the same source table included) and other runs of the program
   write to the same store. *)

MaxIncrChunks == 2

MaxOtherResults == 2

ResultStatuses == {"SUCCESS", "PARTIAL", "FAILED"}

\* _get_last_validation_time: SELECT MAX(completed_at) ... WHERE table_name =
\* :table_name AND status = 'SUCCESS'
get_last_validation_time(table, table_name) ==
    LET times == {table[n].completed_at : n \in {i \in 1..Len(table) :
                      table[i].table_name = table_name /\ table[i].status = "SUCCESS"}}
    IN IF times = {} THEN {} ELSE {CHOOSE t \in times : \A u \in times : u <= t}

\* the record of one query: its bound, and the store the bound was read from
QueryOf(kind) ==
    [query |-> kind, bound |-> get_last_validation_time(out.results_table, "T"),
     store |-> out.results_table]

InitIncr ==
    /\ NoRun
    /\ inp \in {<<>>} \cup
               {<<[table_name |-> t, status |-> st, completed_at |-> 1]>> :
                   t \in {"T", "U"}, st \in ResultStatuses}
    /\ out = [results_table |-> inp, clock |-> 2, pc |-> "count", used |-> <<>>, others |-> 0]

\* _get_table_row_count, lines 133-138
CountQuery ==
    /\ out.pc = "count"
    /\ out' = [out EXCEPT !.pc = "chunk", !.used = Append(@, QueryOf("count"))]
    /\ UNCHANGED <<runVars, inp>>

\* _build_validation_plsql, line 528: one chunk; the loop goes on or ends
ChunkQuery ==
    /\ out.pc = "chunk"
    /\ \E last \in BOOLEAN :
          /\ ~last => Len(out.used) < MaxIncrChunks
          /\ out' = [out EXCEPT !.pc = IF last THEN "extra" ELSE "chunk",
                                !.used = Append(@, QueryOf("chunk"))]
    /\ UNCHANGED <<runVars, inp>>

\* _count_extra_in_target, lines 1037-1050
ExtraQuery ==
    /\ out.pc = "extra"
    /\ out' = [out EXCEPT !.pc = "save", !.used = Append(@, QueryOf("extra"))]
    /\ UNCHANGED <<runVars, inp>>

\* validate_table lines 69-86: the validation saves its own result
SaveOwnResult ==
    /\ out.pc = "save"
    /\ \E st \in {"SUCCESS", "PARTIAL"} :
          out' = [out EXCEPT !.pc = "done", !.clock = @ + 1,
                             !.results_table = Append(@, [table_name |-> "T", status |-> st,
                                                          completed_at |-> out.clock])]
    /\ UNCHANGED <<runVars, inp>>

\* validate_table lines 100-121: a query raises, and a FAILED result is saved
QueryRaises ==
    /\ out.pc \in {"count", "chunk", "extra"}
    /\ out' = [out EXCEPT !.pc = "done", !.clock = @ + 1,
                          !.results_table = Append(@, [table_name |-> "T", status |-> "FAILED",
                                                       completed_at |-> out.clock])]
    /\ UNCHANGED <<runVars, inp>>

\* save_result of another validation, of table "T" or of another table
OtherValidationSaves ==
    /\ out.pc # "done"
    /\ out.others < MaxOtherResults
    /\ \E t \in {"T", "U"}, st \in ResultStatuses :
          out' = [out EXCEPT !.others = @ + 1, !.clock = @ + 1,
                             !.results_table = Append(@, [table_name |-> t, status |-> st,
                                                          completed_at |-> out.clock])]
    /\ UNCHANGED <<runVars, inp>>

NextIncr ==
    \/ CountQuery
    \/ ChunkQuery
    \/ ExtraQuery
    \/ SaveOwnResult
    \/ QueryRaises
    \/ OtherValidationSaves

SpecIncr == InitIncr /\ [][NextIncr]_vars

\* C34: in incremental mode the lower bound of a query is the completion time
\* of the latest SUCCESS result of the table in the result store, PARTIAL and
\* FAILED results never move it, there is no bound when the table has no
\* SUCCESS result, and the count query, every chunk query and the extra sweep
\* of one validation use the same bound.
C34_IncrementalBound ==
    /\ \A i \in 1..Len(out.used) :
          LET q == out.used[i]
              successes == {n \in 1..Len(q.store) :
                               q.store[n].table_name = "T" /\ q.store[n].status = "SUCCESS"}
          IN IF successes = {} THEN q.bound = {}
             ELSE \E n \in successes :
                     /\ q.bound = {q.store[n].completed_at}
                     /\ \A m \in successes : q.store[m].completed_at <= q.store[n].completed_at
    /\ \A i, j \in 1..Len(out.used) : out.used[i].bound = out.used[j].bound


====
